---- MODULE Spec2Model ----
(***************************************************************************)
(* Model of the text-to-structure core of the OCR repository:              *)
(*   core/output_parser.py      OutputParser                               *)
(*   core/schema_extractor.py   SchemaExtractor                            *)
(*   core/semantic_extractor.py SemanticExtractor                          *)
(*   core/structured_output.py  StructuredOutputProcessor                  *)
(* Every component is a function of its arguments.  A state of the model   *)
(* is one call: the operation (op), its arguments (arg) and what it        *)
(* returned (ret); op = "init" before the call is made.  No call reads     *)
(* what an earlier call left behind, so a behaviour makes one call.        *)
(* Texts are sequences over small alphabets;                               *)
(* every regular expression of the source is translated to an operator    *)
(* that scans such a sequence the way the expression scans the string.     *)
(* Four services keep state between calls and have variables of their own: *)
(*   services/queue.py             JobQueue                                *)
(*   api/middleware/rate_limit.py  SlidingWindowLimiter, RateLimiter       *)
(*   api/routes/webhook.py         WebhookManager                          *)
(*   services/workflow.py          WorkflowEngine                          *)
(***************************************************************************)
EXTENDS Integers, Sequences, FiniteSets, TLC

VARIABLES op, arg, ret, attrs, calls, singletons,
          jobs, queue, running, lock, workers, cancel, handled, cancelled,
          limiter, clock, granted, verdict,
          webhooks, delivery_history, deliveries,
          workflow, execution, caller_context, invoked

\* the state of the JobQueue instance (services/queue.py): self._jobs,
\* self._queue, self._running and self._lock, the position of each worker
\* thread and of the thread that calls cancel_job, and two records of what
\* happened: how often the handler was invoked for a job, and the jobs for
\* which cancel_job returned True
jobqueue == <<jobs, queue, running, lock, workers, cancel, handled, cancelled>>

\* the SlidingWindowLimiter instance of the RateLimiter
\* (api/middleware/rate_limit.py), the value of time.time(), and two records
\* of what happened: the times at which calls were allowed for each key, and
\* what the last call returned
ratelimit == <<limiter, clock, granted, verdict>>

\* the WebhookManager (api/routes/webhook.py): the webhook dicts, the
\* delivery history, and the deliver coroutines with their local result
webhook == <<webhooks, delivery_history, deliveries>>

\* the WorkflowEngine (services/workflow.py): the workflow created, the
\* execution of the one execute call, the dict the caller passed, and the
\* indices of the steps whose handler was called, in the order of the calls
engine == <<workflow, execution, caller_context, invoked>>

\* the state of the services, which the calls of the core leave alone
services == <<jobqueue, ratelimit, webhook, engine>>

vars == <<op, arg, ret, attrs, calls, singletons, services>>

\* the state that one call on its own leaves alone: the instance attributes,
\* the calls of the threads, the module-level singletons and the services
shared == <<attrs, calls, singletons, services>>

\* Python's None where a value is expected
Null == [t |-> "none", v |-> 0]

(***************************************************************************)
(* Generic helpers                                                         *)
(***************************************************************************)
\* all sequences over S of length 0..n
SeqUpTo(S, n) == UNION {[1..k -> S] : k \in 0..n}

Range(s) == {s[i] : i \in DOMAIN s}

\* the element of a one-element set; {F(x) : x \in {e}} computes e once
The(S) == CHOOSE y \in S : TRUE

RECURSIVE Concat(_)
Concat(ss) == IF ss = <<>> THEN <<>> ELSE Head(ss) \o Concat(Tail(ss))

(***************************************************************************)
(* OutputParser.parse                                                      *)
(* A raw text is a sequence of tokens: the newline, a content character,   *)
(* and the strings "--- Page 1 ---" and "--- Page 2 ---".                  *)
(***************************************************************************)
NL == "\n"
Delim1 == "--- Page 1 ---"
Delim2 == "--- Page 2 ---"
DelimTok == {Delim1, Delim2}
ParseTok == {NL, "a"} \cup DelimTok
Whitespace == {NL, " "}

MaxParseLen == 8

\* str.strip(): drop leading and trailing whitespace
RECURSIVE LStrip(_)
LStrip(s) == IF s # <<>> /\ Head(s) \in Whitespace THEN LStrip(Tail(s)) ELSE s

RECURSIVE RStrip(_)
RStrip(s) ==
    IF s # <<>> /\ s[Len(s)] \in Whitespace
    THEN RStrip(SubSeq(s, 1, Len(s) - 1)) ELSE s

Strip(s) == RStrip(LStrip(s))

\* first position >= j that holds no whitespace (Len + 1 when there is none)
RECURSIVE WsRunEnd(_, _)
WsRunEnd(text, j) ==
    IF j <= Len(text) /\ text[j] \in Whitespace THEN WsRunEnd(text, j + 1) ELSE j

\* the pattern \n--- Page \d+ ---\n matches at position i
DelimAt(raw, i) ==
    /\ i + 2 <= Len(raw)
    /\ raw[i] = NL
    /\ raw[i + 1] \in DelimTok
    /\ raw[i + 2] = NL

\* re.split(r'\n--- Page \d+ ---\n', raw_output): leftmost non-overlapping
\* matches cut the text; the pieces around them are returned, empty ones too
RECURSIVE SplitFrom(_, _, _)
SplitFrom(raw, i, cur) ==
    IF i > Len(raw) THEN <<cur>>
    ELSE IF DelimAt(raw, i) THEN <<cur>> \o SplitFrom(raw, i + 3, <<>>)
    ELSE SplitFrom(raw, i + 1, Append(cur, raw[i]))

SplitPages(raw) == SplitFrom(raw, 1, <<>>)

\* [p.strip() for p in pages_raw if p.strip()], mutated: nothing is dropped
KeepEveryPage(segs) == [i \in DOMAIN segs |-> Strip(segs[i])]

\* [p.strip() for p in pages_raw if p.strip()]
RECURSIVE DropBlank(_)
DropBlank(segs) ==
    IF segs = <<>> THEN <<>>
    ELSE IF Strip(Head(segs)) # <<>>
         THEN <<Strip(Head(segs))>> \o DropBlank(Tail(segs))
         ELSE DropBlank(Tail(segs))

(***************************************************************************)
(* OutputParser.extract_tables                                             *)
(* A content is a sequence of tokens: the tags "<table>" and "</table>",   *)
(* the text "x", and ItemTable, the markup of one whole table with a       *)
(* header row and a data row.  BeautifulSoup's html.parser opens an        *)
(* element at every start tag, closes the innermost open table at an end   *)
(* tag, ignores an end tag when no table is open and closes what is still  *)
(* open at the end of the content.                                         *)
(***************************************************************************)
TableOpen == "<table>"
TableClose == "</table>"
ItemTable == "<table><tr><th>Item</th></tr><tr><td>W</td></tr></table>"
HtmlTok == {TableOpen, TableClose, ItemTable, "x"}

MaxHtmlLen == 6

\* str(table_tag) of the table opened before position j: the tokens up to
\* its end tag, with the end tags the parser supplied at the end
RECURSIVE TableMarkup(_, _, _, _)
TableMarkup(content, j, depth, acc) ==
    IF depth = 0 THEN acc
    ELSE IF j > Len(content) THEN acc \o [k \in 1..depth |-> TableClose]
    ELSE TableMarkup(content, j + 1,
                     IF content[j] = TableOpen THEN depth + 1
                     ELSE IF content[j] = TableClose THEN depth - 1
                     ELSE depth,
                     Append(acc, content[j]))

\* soup.find_all('table'), each as str(table_tag): every table element in
\* document order, the nested ones too
TablesFrom(content) ==
    LET starts == SelectSeq([i \in DOMAIN content |-> i],
                            LAMBDA i : content[i] \in {TableOpen, ItemTable})
    IN  [k \in DOMAIN starts |->
            IF content[starts[k]] = ItemTable THEN <<ItemTable>>
            ELSE TableMarkup(content, starts[k] + 1, 1, <<TableOpen>>)]

\* the text of the except branch of line 122
CsvError == "Error converting table to CSV: No tables found"

\* lines 116-122: pd.read_html(..)[0] is the first table of the fragment
\* that holds data, written as CSV; when the fragment holds no such table
\* read_html raises and the slot gets the error text
TableCsv(table_html) ==
    IF ItemTable \in Range(table_html) THEN "Item\nW\n" ELSE CsvError

\* extract_tables appending a CSV only when the conversion succeeded
DropFailedCsv(content) ==
    [html_tables |-> TablesFrom(content),
     csv_tables |->
        SelectSeq([k \in DOMAIN TablesFrom(content) |-> TableCsv(TablesFrom(content)[k])],
                  LAMBDA csv : csv # CsvError)]

\* OutputParser.extract_tables
ExtractTables(content) ==
    [html_tables |-> TablesFrom(content),
     csv_tables |-> [k \in DOMAIN TablesFrom(content) |-> TableCsv(TablesFrom(content)[k])]]

(***************************************************************************)
(* OutputParser.extract_checkboxes                                         *)
(* CheckedMark stands for the character U+2611 (ballot box with check) and *)
(* UncheckedMark for U+2610 (ballot box).                                  *)
(***************************************************************************)
CheckedMark == "[x]"
UncheckedMark == "[ ]"
Markers == {CheckedMark, UncheckedMark}
CheckTok == Markers \cup {NL, " ", "a"}

MaxCheckLen == 5

\* the group ([^\n<marks>]*) from position j: the first position >= j that
\* holds a newline or a marker (Len + 1 when there is none)
RECURSIVE LabelEnd(_, _)
LabelEnd(content, j) ==
    IF j <= Len(content) /\ content[j] \notin Markers \cup {NL}
    THEN LabelEnd(content, j + 1) ELSE j

\* re.finditer(r'<marker>\s*([^\n<marks>]*)', content) from position i, one
\* entry {"checked", "label": match.group(1).strip()} for each match; the
\* search goes on where the match ended
RECURSIVE CheckboxPass(_, _, _, _)
CheckboxPass(content, i, marker, checked) ==
    IF i > Len(content) THEN <<>>
    ELSE IF content[i] # marker THEN CheckboxPass(content, i + 1, marker, checked)
    ELSE LET s == WsRunEnd(content, i + 1)
             e == LabelEnd(content, s)
         IN  <<[checked |-> checked, label |-> Strip(SubSeq(content, s, e - 1))]>>
                 \o CheckboxPass(content, e, marker, checked)

\* extract_checkboxes with its two passes exchanged
UncheckedFirst(content) ==
    CheckboxPass(content, 1, UncheckedMark, FALSE)
        \o CheckboxPass(content, 1, CheckedMark, TRUE)

\* OutputParser.extract_checkboxes: the pass for the checked boxes, then the
\* pass for the unchecked ones
ExtractCheckboxes(content) ==
    CheckboxPass(content, 1, CheckedMark, TRUE)
        \o CheckboxPass(content, 1, UncheckedMark, FALSE)

(***************************************************************************)
(* OutputParser.extract_equations                                          *)
(***************************************************************************)
BeginEquation == "\\begin{equation}"
EndEquation == "\\end{equation}"
BeginAlign == "\\begin{align}"
EndAlign == "\\end{align}"
EqTok == {"$", "a", " ", BeginEquation, EndEquation, BeginAlign, EndAlign}

MaxEqLen == 5

\* the run [^$]+ from position j: the first position >= j that holds a "$"
RECURSIVE NoDollarEnd(_, _)
NoDollarEnd(content, j) ==
    IF j <= Len(content) /\ content[j] # "$" THEN NoDollarEnd(content, j + 1) ELSE j

\* content holds n "$" from position j on
Dollars(content, j, n) ==
    /\ j + n - 1 <= Len(content)
    /\ \A k \in j..(j + n - 1) : content[k] = "$"

\* the matches of n "$", ([^$]+), n "$" from position i, as spans of the
\* content: r'\$\$([^$]+)\$\$' for n = 2 and r'\$([^$]+)\$' for n = 1; the
\* matches do not overlap
RECURSIVE DollarSpans(_, _, _)
DollarSpans(content, i, n) ==
    IF i > Len(content) THEN <<>>
    ELSE LET e == NoDollarEnd(content, i + n)
         IN  IF Dollars(content, i, n) /\ e > i + n /\ Dollars(content, e, n)
             THEN <<[from |-> i, to |-> e + n - 1]>> \o DollarSpans(content, e + n, n)
             ELSE DollarSpans(content, i + 1, n)

\* re.findall of the pattern: the group of each match
DollarMatches(content, i, n) ==
    [k \in DOMAIN DollarSpans(content, i, n) |->
        SubSeq(content, DollarSpans(content, i, n)[k].from + n,
               DollarSpans(content, i, n)[k].to - n)]

\* first position >= j that holds token end (Len + 1 when there is none)
RECURSIVE TokenAt(_, _, _)
TokenAt(content, j, end) ==
    IF j <= Len(content) /\ content[j] # end THEN TokenAt(content, j + 1, end) ELSE j

\* re.findall(r'\\begin\{env\*?\}(.*?)\\end\{env\*?\}', content, re.DOTALL)
\* from position i: the group is the shortest text up to an end tag
RECURSIVE EnvMatches(_, _, _, _)
EnvMatches(content, i, begin, end) ==
    IF i > Len(content) THEN <<>>
    ELSE LET e == TokenAt(content, i + 1, end)
         IN  IF content[i] = begin /\ e <= Len(content)
             THEN <<SubSeq(content, i + 1, e - 1)>> \o EnvMatches(content, e + 1, begin, end)
             ELSE EnvMatches(content, i + 1, begin, end)

\* the inline pattern of line 141, applied to the whole content
InlineMatches(content) == DollarMatches(content, 1, 1)

\* lines 146-154: the stripped matches that are not blank
StrippedNonBlank(matches) ==
    LET stripped == [k \in DOMAIN matches |-> Strip(matches[k])]
    IN  SelectSeq(stripped, LAMBDA eq : eq # <<>>)

\* OutputParser.extract_equations: the matches of the four patterns in the
\* order of the list, each pattern searched in the whole content
ExtractEquations(content) ==
    StrippedNonBlank(DollarMatches(content, 1, 2))
        \o StrippedNonBlank(InlineMatches(content))
        \o StrippedNonBlank(EnvMatches(content, 1, BeginEquation, EndEquation))
        \o StrippedNonBlank(EnvMatches(content, 1, BeginAlign, EndAlign))

\* OutputParser._parse_page: the page record (number, text, tables,
\* equations and checkboxes)
ParsePage(page_text, page_number) ==
    [page_number |-> page_number, raw_text |-> page_text,
     tables_html |-> ExtractTables(page_text).html_tables,
     tables_csv |-> ExtractTables(page_text).csv_tables,
     latex_equations |-> ExtractEquations(page_text),
     checkboxes |-> ExtractCheckboxes(page_text)]

\* the enumerate loop of parse, mutated: a page is numbered from 0
NumberFromZero(pages_raw) ==
    [i \in DOMAIN pages_raw |-> ParsePage(pages_raw[i], i - 1)]

\* for page_idx, page_text in enumerate(pages_raw): _parse_page(.., page_idx + 1)
NumberPages(pages_raw) ==
    [i \in DOMAIN pages_raw |-> ParsePage(pages_raw[i], i)]

\* OutputParser.parse
Parse(raw) == [pages |-> NumberPages(DropBlank(SplitPages(raw)))]

(***************************************************************************)
(* SchemaExtractor                                                         *)
(* A text is a sequence of characters.  The schema has one property, named *)
(* "k", without description; it is or is not listed in required.           *)
(***************************************************************************)
FieldName == "k"
Digits == {"0", "1"}
SchemaChars == {FieldName, ":", NL, " ", "a"} \cup Digits

MaxSchemaLen == 3

\* an optional item (a match, a schema constraint): <<>> or <<item>>
None == <<>>
Some(x) == <<x>>

\* the values a result can hold: None, an int, a bool or a str
IntVal(n) == [t |-> "int", v |-> n]
BoolVal(b) == [t |-> "bool", v |-> b]
StrVal(s) == [t |-> "str", v |-> s]

\* Python truth value of a result value: None, 0, False and "" are false
Truthy(val) ==
    /\ val.t # "none"
    /\ val.t = "int" => val.v # 0
    /\ val.t = "bool" => val.v
    /\ val.t = "str" => val.v # <<>>

\* the number an int or bool compares as
NumOf(val) == IF val.t = "bool" THEN (IF val.v THEN 1 ELSE 0) ELSE val.v

\* custom patterns a schema may carry: r":(.)" and the malformed "("
NoPattern == ""
PatColonAny == ":(.)"
PatBad == "("

\* first position >= j that holds a newline (Len + 1 when there is none)
RECURSIVE LineEnd(_, _)
LineEnd(text, j) ==
    IF j <= Len(text) /\ text[j] # NL THEN LineEnd(text, j + 1) ELSE j

\* first position >= j that holds no digit
RECURSIVE DigitRunEnd(_, _)
DigitRunEnd(text, j) ==
    IF j <= Len(text) /\ text[j] \in Digits THEN DigitRunEnd(text, j + 1) ELSE j

\* self.type_patterns[field_type] matched at position e:
\*   string r".+", integer r"-?\d+", boolean r"(?:true|false|yes|no|1|0)"
TypePatternAt(field_type, text, e) ==
    IF e > Len(text) THEN None
    ELSE IF field_type = "integer"
         THEN IF text[e] \in Digits
              THEN Some(SubSeq(text, e, DigitRunEnd(text, e) - 1)) ELSE None
    ELSE IF field_type = "boolean"
         THEN IF text[e] \in Digits THEN Some(<<text[e]>>) ELSE None
    ELSE IF text[e] # NL
         THEN Some(SubSeq(text, e, LineEnd(text, e) - 1)) ELSE None

\* \s*(<type pattern>) matched from position j; \s* is greedy and gives
\* characters back, so ".+" can end up matching a blank it left behind
ValueAfter(field_type, text, j) ==
    LET e == WsRunEnd(text, j)
        m == TypePatternAt(field_type, text, e)
        blanks == {q \in j..(e - 1) : text[q] = " "}
    IN  IF m # None THEN m
        ELSE IF field_type = "string" /\ blanks # {}
             THEN LET q == CHOOSE x \in blanks : \A y \in blanks : y <= x
                  IN Some(SubSeq(text, q, LineEnd(text, q) - 1))
        ELSE None

\* rf"{name}\s*[:\-=]\s*({value_pattern})" matched at position i
ColonPatternAt(field_type, text, i) ==
    IF text[i] # FieldName THEN None
    ELSE LET c == WsRunEnd(text, i + 1) IN
         IF c <= Len(text) /\ text[c] = ":"
         THEN ValueAfter(field_type, text, c + 1) ELSE None

\* rf"{name}\s*\n\s*({value_pattern})" matched at position i
NewlinePatternAt(field_type, text, i) ==
    IF text[i] # FieldName THEN None
    ELSE LET e == WsRunEnd(text, i + 1)
             nls == {n \in (i + 1)..(e - 1) : text[n] = NL}
             m == TypePatternAt(field_type, text, e)
             blanks == {q \in (i + 1)..(e - 1) :
                          text[q] = " " /\ \E n \in nls : n < q}
         IN  IF nls = {} THEN None
             ELSE IF m # None THEN m
             ELSE IF field_type = "string" /\ blanks # {}
                  THEN LET q == CHOOSE x \in blanks : \A y \in blanks : y <= x
                       IN Some(SubSeq(text, q, LineEnd(text, q) - 1))
             ELSE None

\* the custom pattern r":(.)" matched at position i
ColonAnyAt(text, i) ==
    IF text[i] = ":" /\ i + 1 <= Len(text) /\ text[i + 1] # NL
    THEN Some(<<text[i + 1]>>) ELSE None

\* one candidate pattern matched at position i: the captured group, or None
PatternAt(kind, field_type, text, i) ==
    IF kind = "colon" THEN ColonPatternAt(field_type, text, i)
    ELSE IF kind = "newline" THEN NewlinePatternAt(field_type, text, i)
    ELSE IF kind = "fallback" THEN TypePatternAt(field_type, text, i)
    ELSE ColonAnyAt(text, i)

\* re.search(search_pattern, text, ...): the leftmost match; then
\* match.group(1).strip().  None when nothing matches.
ReSearch(kind, field_type, text) ==
    LET hits == {i \in DOMAIN text : PatternAt(kind, field_type, text, i) # None}
    IN  IF hits = {} THEN None
        ELSE LET i == CHOOSE x \in hits : \A y \in hits : x <= y
             IN Some(Strip(PatternAt(kind, field_type, text, i)[1]))

\* SchemaExtractor._build_search_patterns: pattern and confidence weight, in
\* percent; the three name variations of "k" are the same string
BuildSearchPatterns(field_type, custom_pattern) ==
    (IF custom_pattern # NoPattern THEN <<[kind |-> custom_pattern, weight |-> 95]>>
     ELSE <<>>)
    \o Concat([n \in 1..3 |->
                  <<[kind |-> "colon", weight |-> 90],
                    [kind |-> "newline", weight |-> 85]>>])
    \o <<[kind |-> "fallback", weight |-> 50]>>

\* int(<digits>)
RECURSIVE IntOf(_)
IntOf(ds) ==
    IF ds = <<>> THEN 0
    ELSE 10 * IntOf(SubSeq(ds, 1, Len(ds) - 1))
         + (IF ds[Len(ds)] = "1" THEN 1 ELSE 0)

\* SchemaExtractor._validate_value: (validated, converted value)
ValidateValue(value, field_type, schema) ==
    IF field_type = "integer"
    THEN LET ds == SelectSeq(value, LAMBDA ch : ch \in Digits) IN
         IF ds = <<>> THEN [ok |-> FALSE, value |-> Null]
         ELSE [ok |-> TRUE, value |-> IntVal(IntOf(ds))]
    ELSE IF field_type = "boolean"
    THEN IF value = <<"1">> THEN [ok |-> TRUE, value |-> BoolVal(TRUE)]
         ELSE IF value = <<"0">> THEN [ok |-> TRUE, value |-> BoolVal(FALSE)]
         ELSE [ok |-> FALSE, value |-> Null]
    ELSE LET min_len == IF schema.minLength = None THEN 0 ELSE schema.minLength[1]
         IN  IF /\ min_len <= Len(value)
                /\ schema.maxLength # None => Len(value) <= schema.maxLength[1]
             THEN [ok |-> TRUE, value |-> StrVal(value)]
             ELSE [ok |-> FALSE, value |-> Null]

\* SchemaExtractor._validate_format: the errors of the format constraints
ValidateFormat(value, schema) ==
    IF value.t = "str"
    THEN (IF schema.minLength # None /\ Len(value.v) < schema.minLength[1]
          THEN <<"Value too short">> ELSE <<>>)
         \o (IF schema.maxLength # None /\ Len(value.v) > schema.maxLength[1]
             THEN <<"Value too long">> ELSE <<>>)
    ELSE (IF schema.minimum # None /\ NumOf(value) < schema.minimum[1]
          THEN <<"Value below minimum">> ELSE <<>>)
         \o (IF schema.maximum # None /\ NumOf(value) > schema.maximum[1]
             THEN <<"Value above maximum">> ELSE <<>>)

\* the search loop of _extract_field, mutated: the loop has no break and
\* the last pattern that matches and validates wins
RECURSIVE LastMatchLoop(_, _, _, _, _)
LastMatchLoop(patterns, k, text, schema, errors) ==
    IF k > Len(patterns)
    THEN [value |-> Null, confidence |-> 0, errors |-> errors]
    ELSE LET rest == LastMatchLoop(patterns, k + 1, text, schema, errors)
             m == IF patterns[k].kind = PatBad THEN None
                  ELSE ReSearch(patterns[k].kind, schema.type, text)
         IN  IF rest.confidence # 0 \/ m = None THEN rest
             ELSE IF ValidateValue(m[1], schema.type, schema).ok
             THEN [value |-> ValidateValue(m[1], schema.type, schema).value,
                   confidence |-> patterns[k].weight, errors |-> errors]
             ELSE rest

\* the loop over search_patterns in _extract_field, from candidate k on:
\* a malformed pattern raises re.error, which is recorded; the first match
\* that validates ends the loop and gives the value and the confidence
RECURSIVE SearchLoop(_, _, _, _, _)
SearchLoop(patterns, k, text, schema, errors) ==
    IF k > Len(patterns)
    THEN [value |-> Null, confidence |-> 0, errors |-> errors]
    ELSE IF patterns[k].kind = PatBad
    THEN SearchLoop(patterns, k + 1, text, schema, Append(errors, "Pattern error"))
    ELSE LET m == ReSearch(patterns[k].kind, schema.type, text) IN
         IF m = None THEN SearchLoop(patterns, k + 1, text, schema, errors)
         ELSE LET v == ValidateValue(m[1], schema.type, schema) IN
              IF v.ok
              THEN [value |-> v.value, confidence |-> patterns[k].weight,
                    errors |-> errors]
              ELSE SearchLoop(patterns, k + 1, text, schema,
                              Append(errors, "Value doesn't match type"))

\* valid=len(errors) == 0 and value is not None, mutated: errors are ignored
ValidIgnoringErrors(errors, value) == value # Null

\* valid=len(errors) == 0 and value is not None
FieldValid(errors, value) == errors = <<>> /\ value # Null

\* lines 114-130 of _extract_field: the enum check, which discards the
\* value, the format checks and the result; found is what the loop returned
CheckConstraints(found, field_name, schema) ==
    LET enum_fails == /\ Truthy(found.value)
                      /\ schema.enum # None
                      /\ schema.enum[1] # {}
                      /\ found.value \notin schema.enum[1]
        value == IF enum_fails THEN Null ELSE found.value
        errors1 == IF enum_fails
                   THEN Append(found.errors, "Value not in allowed values")
                   ELSE found.errors
        errors2 == IF Truthy(value)
                   THEN errors1 \o ValidateFormat(value, schema)
                   ELSE errors1
    IN  [field_name |-> field_name,
         value |-> value,
         confidence |-> found.confidence,
         valid |-> FieldValid(errors2, value),
         errors |-> errors2]

\* SchemaExtractor._extract_field
ExtractField(text, field_name, schema) ==
    The({CheckConstraints(found, field_name, schema) :
            found \in {SearchLoop(BuildSearchPatterns(schema.type, schema.pattern),
                                  1, text, schema, <<>>)}})

RequiredError == "Required field not found"

\* lines 61-64 of extract: the required check on one result
CheckRequired(result, required) ==
    IF required /\ ~Truthy(result.value)
    THEN [result EXCEPT !.valid = FALSE, !.errors = Append(@, RequiredError)]
    ELSE result

\* SchemaExtractor.extract for a schema with the one property "k";
\* required tells whether "k" is in the schema's required list
Extract(text, schema, required) ==
    [f \in {FieldName} |->
        The({CheckRequired(result, required) :
                result \in {ExtractField(text, f, schema)}})]

\* the property schemas the calls draw from
BaseSchema(field_type) ==
    [type |-> field_type, pattern |-> NoPattern, enum |-> None,
     minimum |-> None, maximum |-> None, minLength |-> None, maxLength |-> None]

Schemas ==
    {BaseSchema("integer"),
     [BaseSchema("integer") EXCEPT !.pattern = PatColonAny],
     [BaseSchema("integer") EXCEPT !.pattern = PatBad],
     [BaseSchema("integer") EXCEPT !.enum = Some({IntVal(1)})],
     [BaseSchema("integer") EXCEPT !.minimum = Some(1)],
     [BaseSchema("integer") EXCEPT !.minimum = Some(2)],
     [BaseSchema("integer") EXCEPT !.maximum = Some(10)],
     BaseSchema("boolean"),
     [BaseSchema("boolean") EXCEPT !.minimum = Some(2)],
     BaseSchema("string"),
     [BaseSchema("string") EXCEPT !.pattern = PatColonAny],
     [BaseSchema("string") EXCEPT !.enum = Some({StrVal(<<"a">>)})],
     [BaseSchema("string") EXCEPT !.minLength = Some(2)],
     [BaseSchema("string") EXCEPT !.maxLength = Some(1)]}

(***************************************************************************)
(* SemanticExtractor                                                       *)
(* A text is a sequence of tokens: capitalised words, the title "Dr.",     *)
(* the digit "5", the colon, the blank and the newline; the text of the    *)
(* label-filtering test also holds ",", "IL" and "$100.00".  A value is    *)
(* the sequence of tokens the pattern matched.  Over these tokens the      *)
(* organization, date, email, phone and address patterns, the second and   *)
(* third money pattern and the field patterns other than payment_info's    *)
(* amount have no match (none of their keywords or separators occurs).     *)
(***************************************************************************)
CapWords ==
    {"Bill", "To", "Adam", "Total", "Smith", "Ship", "Mode", "Second",
     "Class", "Chicago", "Balance", "Due", "Email"}
Titles == {"Dr."}

\* an e-mail address with a space on either side
Address == " a@b.co "

SemTok ==
    {"Bill", "To", "Adam", "Dr.", "Total", "5", "$100.00", ":", " ", NL,
     "Email", "E-mail", Address}

MaxSemLen == 3

\* the text of TestPersonEntityFiltering.test_filters_document_labels
ScenarioText ==
    <<NL, " ", "Bill", " ", "To", ":", " ", "Adam", " ", "Smith",
      NL, " ", "Ship", " ", "To", ":", " ", "Chicago", ",", " ", "IL",
      NL, " ", "Ship", " ", "Mode", ":", " ", "Second", " ", "Class",
      NL, " ", "Balance", " ", "Due", ":", " ", "$100.00", NL, " ">>

\* the token starts, ends with a word character (\w)
WordStart(tok) == tok \in CapWords \cup Titles \cup {"5", "IL", "E-mail"}
WordEnd(tok) == tok \in CapWords \cup {"5", "IL", "$100.00", "E-mail"}

\* the prefix of the token that [A-Z][a-z]+ matches, <<>> when none
CapPrefix(tok) ==
    IF tok \in CapWords THEN <<tok>>
    ELSE IF tok = "Dr." THEN <<"Dr">>
    ELSE <<>>

\* str.lower() of a token, of a header text
Lower(tok) ==
    CASE tok = "Bill" -> "bill"     [] tok = "To" -> "to"
      [] tok = "Adam" -> "adam"     [] tok = "Total" -> "total"
      [] tok = "Smith" -> "smith"   [] tok = "Ship" -> "ship"
      [] tok = "Mode" -> "mode"     [] tok = "Second" -> "second"
      [] tok = "Class" -> "class"   [] tok = "Chicago" -> "chicago"
      [] tok = "Balance" -> "balance" [] tok = "Due" -> "due"
      [] tok = "Dr." -> "dr."       [] tok = "Dr" -> "dr"
      [] tok = "IL" -> "il"         [] tok = "Item" -> "item"
      [] tok = "Description" -> "description"
      [] tok = "PRODUCT" -> "product" [] tok = "Qty" -> "qty"
      [] tok = "Amount" -> "amount"
      [] tok = "Email" -> "email"   [] tok = "E-mail" -> "e-mail"
      [] OTHER -> tok

LowerText(v) == [i \in DOMAIN v |-> Lower(v[i])]

\* self._person_exclusions
PersonExclusions ==
    {<<"bill", " ", "to">>, <<"ship", " ", "to">>, <<"sold", " ", "to">>,
     <<"deliver", " ", "to">>, <<"ship", " ", "mode">>, <<"second", " ", "class">>,
     <<"first", " ", "class">>, <<"standard", " ", "class">>,
     <<"balance", " ", "due">>, <<"amount", " ", "due">>, <<"total", " ", "due">>,
     <<"grand", " ", "total">>, <<"sub", " ", "total">>, <<"thank", " ", "you">>,
     <<"terms", " ", "and">>, <<"notes", " ", "and">>, <<"order", " ", "id">>,
     <<"invoice", " ", "number">>, <<"receipt", " ", "number">>,
     <<"customer", " ", "id">>}

\* the lower-cased tokens that hold one of 'inkjet', 'laser', 'printer',
\* 'machine', 'class'
ProductWordTokens == {"class"}

\* r"\b[A-Z][a-z]+\s+[A-Z][a-z]+\b" matched at token i: the matched value,
\* <<>> when there is no match
PersonNameAt(text, i) ==
    LET e == WsRunEnd(text, i + 1) IN
    IF /\ text[i] \in CapWords
       /\ i > 1 => ~WordEnd(text[i - 1])
       /\ e > i + 1
       /\ e <= Len(text)
       /\ \/ text[e] = "Dr."
          \/ /\ text[e] \in CapWords
             /\ e < Len(text) => ~WordStart(text[e + 1])
    THEN SubSeq(text, i, e - 1) \o CapPrefix(text[e])
    ELSE <<>>

\* r"(?:Mr\.|Mrs\.|Ms\.|Dr\.)\s+[A-Z][a-z]+" matched at token i
TitledNameAt(text, i) ==
    LET e == WsRunEnd(text, i + 1) IN
    IF /\ text[i] \in Titles
       /\ e > i + 1
       /\ e <= Len(text)
       /\ CapPrefix(text[e]) # <<>>
    THEN SubSeq(text, i, e - 1) \o CapPrefix(text[e])
    ELSE <<>>

\* first position >= j that holds no "5"
RECURSIVE FiveRunEnd(_, _)
FiveRunEnd(text, j) ==
    IF j <= Len(text) /\ text[j] = "5" THEN FiveRunEnd(text, j + 1) ELSE j

\* r"\$[\d,]+\.?\d*" matched at token i
MoneyAt(text, i) ==
    IF text[i] = "$100.00"
    THEN SubSeq(text, i, FiveRunEnd(text, i + 1) - 1)
    ELSE <<>>

\* r"[a-zA-Z0-9._%+-]+@[a-zA-Z0-9.-]+\.[a-zA-Z]{2,}" matched at token i: the
\* address without the spaces around it
EmailAt(text, i) ==
    IF text[i] = Address THEN <<"a@b.co">> ELSE <<>>

\* one entity pattern matched at token i
EntityAt(pattern, text, i) ==
    IF pattern = "person_name" THEN PersonNameAt(text, i)
    ELSE IF pattern = "titled_name" THEN TitledNameAt(text, i)
    ELSE IF pattern = "dollar_amount" THEN MoneyAt(text, i)
    ELSE IF pattern = "email_address" THEN EmailAt(text, i)
    ELSE <<>>

\* re.findall(pattern, text): the matches from token i on, left to right,
\* without overlap
RECURSIVE FindAll(_, _, _)
FindAll(pattern, text, i) ==
    IF i > Len(text) THEN <<>>
    ELSE IF EntityAt(pattern, text, i) = <<>> THEN FindAll(pattern, text, i + 1)
    ELSE <<EntityAt(pattern, text, i)>>
         \o FindAll(pattern, text, i + Len(EntityAt(pattern, text, i)))

\* self._entity_patterns: the entity types in order, each with its patterns;
\* "no_match" stands for a pattern without a match over the tokens
EntityPatterns ==
    <<[type |-> "person", patterns |-> <<"person_name", "titled_name">>],
      [type |-> "organization", patterns |-> <<"no_match", "no_match">>],
      [type |-> "date", patterns |-> <<"no_match", "no_match", "no_match">>],
      [type |-> "money", patterns |-> <<"dollar_amount", "no_match", "no_match">>],
      [type |-> "email", patterns |-> <<"email_address">>],
      [type |-> "phone", patterns |-> <<"no_match", "no_match">>],
      [type |-> "address", patterns |-> <<"no_match">>]>>

\* the person filter of extract, mutated: the exclusion list is not consulted
KeepsAnyPerson(entity_type, match) ==
    ~(/\ entity_type = "person"
      /\ \E j \in DOMAIN match : Lower(match[j]) \in ProductWordTokens)

\* lines 146-152 of extract: a person match is skipped when its lower-cased
\* text is an excluded label or holds a product word
KeepsMatch(entity_type, match) ==
    ~(/\ entity_type = "person"
      /\ \/ LowerText(match) \in PersonExclusions
         \/ \E j \in DOMAIN match : Lower(match[j]) \in ProductWordTokens)

\* the confidence of an entity, in percent
EntityConfidence == 80

\* the entities of the matches of one pattern
EntitiesOf(entity_type, matches) ==
    LET kept == SelectSeq(matches, LAMBDA m : KeepsMatch(entity_type, m)) IN
    [j \in DOMAIN kept |->
        [type |-> entity_type, value |-> kept[j], confidence |-> EntityConfidence]]

\* lines 141-157 of extract: the loop over entity types and patterns
AllEntities(text) ==
    Concat([t \in DOMAIN EntityPatterns |->
        Concat([k \in DOMAIN EntityPatterns[t].patterns |->
            EntitiesOf(EntityPatterns[t].type,
                       FindAll(EntityPatterns[t].patterns[k], text, 1))])])

\* first position >= j that holds neither "5" nor ","
RECURSIVE NumRunEnd(_, _)
NumRunEnd(text, j) ==
    IF j <= Len(text) /\ text[j] \in {"5", ","} THEN NumRunEnd(text, j + 1) ELSE j

\* r"\$?([\d,]+\.?\d*)" matched at token c: the captured group
NumberAt(text, c) ==
    IF c > Len(text) THEN <<>>
    ELSE IF text[c] = "$100.00"
    THEN <<"100.00">> \o SubSeq(text, c + 1, FiveRunEnd(text, c + 1) - 1)
    ELSE SubSeq(text, c, NumRunEnd(text, c) - 1)

\* r"(?:keywords)\s*:?\s*\$?([\d,]+\.?\d*)" matched, ignoring case, at
\* token i: the captured group, <<>> when there is no match
KeywordNumberAt(keywords, text, i) ==
    IF Lower(text[i]) \notin keywords THEN <<>>
    ELSE LET a == WsRunEnd(text, i + 1)
             b == IF a <= Len(text) /\ text[a] = ":" THEN a + 1 ELSE a
         IN  NumberAt(text, WsRunEnd(text, b))

\* re.search(pattern, text, re.IGNORECASE).group(1).strip() from token i on
RECURSIVE SearchNumber(_, _, _)
SearchNumber(keywords, text, i) ==
    IF i > Len(text) THEN <<>>
    ELSE IF KeywordNumberAt(keywords, text, i) # <<>>
    THEN KeywordNumberAt(keywords, text, i)
    ELSE SearchNumber(keywords, text, i + 1)

\* the keywords of a field pattern that occur in the tokens; the empty set
\* for a pattern without a match over the tokens
PatternKeywords(pattern) ==
    CASE pattern = "amount_of" -> {"total", "due"}
      [] pattern = "total_of" -> {"total"}
      [] OTHER -> {}

\* self._context_patterns: the groups in order, each with its triggers and
\* its fields
ContextPatterns ==
    <<[name |-> "payment_info",
       triggers |-> {"payment", "pay", "due", "amount", "total"},
       extract |-> <<[field |-> "amount", pattern |-> "amount_of"],
                     [field |-> "due_date", pattern |-> "no_match"],
                     [field |-> "method", pattern |-> "no_match"]>>],
      [name |-> "contact_info",
       triggers |-> {"contact", "phone", "email", "address", "reach"},
       extract |-> <<[field |-> "phone", pattern |-> "no_match"],
                     [field |-> "email", pattern |-> "email_of"],
                     [field |-> "address", pattern |-> "no_match"]>>],
      [name |-> "identification",
       triggers |-> {"id", "number", "reference", "account"},
       extract |-> <<[field |-> "id_number", pattern |-> "no_match"],
                     [field |-> "customer_id", pattern |-> "no_match"]>>],
      [name |-> "dates",
       triggers |-> {"date", "issued", "effective", "expires"},
       extract |-> <<[field |-> "issue_date", pattern |-> "no_match"],
                     [field |-> "effective_date", pattern |-> "no_match"],
                     [field |-> "expiry_date", pattern |-> "no_match"]>>]>>

\* the trigger check of extract, mutated: every group is evaluated
TriggerIgnored(triggers, text) == triggers # {}

\* trigger in text_lower: of the tokens, only "total", "due" and "email" hold
\* a trigger word, and each is that word
TriggerIn(triggers, text) ==
    \E i \in DOMAIN text : Lower(text[i]) \in triggers

\* the confidences of the semantic fields, in percent
ContextConfidenceTimes100 == 85 * 100
ContextConfidence == 85
QueryConfidence == 75

\* r"(?:email|e-mail)\s*:?\s*(<address>)" searched, ignoring case, from
\* token i on: the captured group, None when there is no match
RECURSIVE SearchEmail(_, _)
SearchEmail(text, i) ==
    IF i > Len(text) THEN None
    ELSE LET a == WsRunEnd(text, i + 1)
             b == IF a <= Len(text) /\ text[a] = ":" THEN a + 1 ELSE a
             c == WsRunEnd(text, b)
         IN  IF /\ Lower(text[i]) \in {"email", "e-mail"}
                /\ c <= Len(text)
                /\ EmailAt(text, c) # <<>>
             THEN Some(EmailAt(text, c))
             ELSE SearchEmail(text, i + 1)

\* re.search(pattern, text, re.IGNORECASE) of a field pattern: the stripped
\* group 1, None when there is no match
ContextMatch(pattern, text) ==
    IF pattern = "email_of" THEN SearchEmail(text, 1)
    ELSE IF SearchNumber(PatternKeywords(pattern), text, 1) = <<>> THEN None
    ELSE Some(SearchNumber(PatternKeywords(pattern), text, 1))

\* the SemanticField of one pattern of one context group, <<>> when the
\* group is not triggered or the pattern has no match
ContextField(group, entry, text) ==
    IF TriggerIn(group.triggers, text) /\ ContextMatch(entry.pattern, text) # None
    THEN <<[name |-> entry.field,
            value |-> ContextMatch(entry.pattern, text)[1],
            confidence |-> ContextConfidence,
            context |-> group.name,
            reasoning |-> <<"Found in ", group.name, " context with pattern match">>]>>
    ELSE <<>>

\* lines 160-173 of extract: the fields found by context, in order
ContextFields(text) ==
    Concat([g \in DOMAIN ContextPatterns |->
        Concat([k \in DOMAIN ContextPatterns[g].extract |->
            ContextField(ContextPatterns[g], ContextPatterns[g].extract[k], text)])])

\* the queries a call passes, and for each the keys of field_mappings its
\* lower-cased text holds, in the order of field_mappings
Queries == {<<>>, <<"What is the total?">>, <<"Who is it?">>}
QueryKeys(query) ==
    IF query = "What is the total?"
    THEN <<[key |-> "total", pattern |-> "total_of", query |-> query]>>
    ELSE <<>>

\* _extract_from_query: the field of the first key with a match
RECURSIVE FirstKeyMatch(_, _, _)
FirstKeyMatch(text, keys, k) ==
    IF k > Len(keys) THEN <<>>
    ELSE IF SearchNumber(PatternKeywords(keys[k].pattern), text, 1) # <<>>
    THEN <<[name |-> keys[k].key,
            value |-> SearchNumber(PatternKeywords(keys[k].pattern), text, 1),
            confidence |-> QueryConfidence,
            context |-> "query",
            reasoning |-> <<"Extracted based on query: ", keys[k].query>>]>>
    ELSE FirstKeyMatch(text, keys, k + 1)

ExtractFromQuery(text, query) == FirstKeyMatch(text, QueryKeys(query), 1)

\* lines 176-180 of extract
QueryFields(text, queries) ==
    Concat([q \in DOMAIN queries |-> ExtractFromQuery(text, queries[q])])

\* fields[field.name] = field for each field in order: the last one of a
\* name stays
FieldsDict(found) ==
    [n \in {found[j].name : j \in DOMAIN found} |->
        found[CHOOSE j \in DOMAIN found :
            /\ found[j].name = n
            /\ \A l \in DOMAIN found : found[l].name = n => l <= j]]

\* len(text.split()): the tokens at which a word starts
WordCount(text) ==
    Cardinality({i \in DOMAIN text :
        /\ text[i] \notin Whitespace
        /\ \/ i = 1
           \/ text[i - 1] \in Whitespace \cup {Address}
           \/ text[i] = Address})

\* _generate_summary: the counted entity types in the order organization,
\* person, money, date, or the word count when no such entity is found
CountOf(entities, etype) ==
    Cardinality({j \in DOMAIN entities : entities[j].type = etype})

GenerateSummary(text, entities) ==
    LET order == <<"organization", "person", "money", "date">>
        parts == SelectSeq(order, LAMBDA t : CountOf(entities, t) > 0)
    IN  IF parts # <<>>
        THEN [kind |-> "contains",
              parts |-> [j \in DOMAIN parts |-> <<CountOf(entities, parts[j]), parts[j]>>]]
        ELSE [kind |-> "words", parts |-> <<<<WordCount(text), "words">>>>]

\* _extract_key_points: no bullet and no keyword of the important patterns
\* occurs in the tokens
ExtractKeyPoints(text) == <<>>

\* entities[:20]
MaxEntitiesPlusOne == 20 + 1
MaxEntities == 20

\* a text with more entity matches than the result may hold: one amount
\* more than the limit, then a titled name
ManyEntitiesText ==
    [i \in 1..(2 * (MaxEntities + 1)) |-> IF i % 2 = 1 THEN "$100.00" ELSE " "]
        \o <<"Dr.", " ", "Adam">>

\* SemanticExtractor.extract, for the entities already found
ExtractResult(text, queries, entities) ==
    [fields |-> FieldsDict(ContextFields(text) \o QueryFields(text, queries)),
     summary |-> GenerateSummary(text, entities),
     entities |-> SubSeq(entities, 1, IF Len(entities) < MaxEntities
                                      THEN Len(entities) ELSE MaxEntities),
     key_points |-> ExtractKeyPoints(text)]

SemanticExtract(text, queries) ==
    The({ExtractResult(text, queries, entities) : entities \in {AllEntities(text)}})

(***************************************************************************)
(* StructuredOutputProcessor._parse_line_items                             *)
(* A table fragment is what BeautifulSoup makes of it: the rows in         *)
(* document order, each the texts of its td/th cells, or markup that the   *)
(* parser rejects (BeautifulSoup raises ParserRejectedMarkup for a marked  *)
(* section with an unknown keyword such as "<![x y]>").                    *)
(***************************************************************************)
HtmlTable(rows) == [rejected |-> FALSE, rows |-> rows]
RejectedTable == [rejected |-> TRUE, rows |-> <<>>]

\* the texts of the data cells and the header rows of the tables
CellTexts == {"", "W", " G\nnote", "W \nOffice, AB-CD-1"}
HeaderRows ==
    {<<>>, <<"Item">>, <<"Item", "Qty">>, <<"Qty", " Description ">>,
     <<"Item", "PRODUCT">>, <<"Qty", "Amount">>, <<"Item", "Qty", "Amount">>}
DataRows ==
    {<<>>} \cup {<<c>> : c \in CellTexts} \cup {<<c, e>> : c, e \in CellTexts}

MaxDataRows == 2

LineItemTables ==
    {<<>>} \cup {<<h>> \o d : h \in HeaderRows, d \in SeqUpTo(DataRows, MaxDataRows)}

\* str.strip(), get_text(strip=True) of the texts above
TextStrip(text) ==
    CASE text = " Description " -> "Description"
      [] text = " G\nnote" -> "G\nnote"
      [] text = "W \nOffice, AB-CD-1" -> "W \nOffice, AB-CD-1"
      [] text = "W " -> "W"
      [] OTHER -> text

\* cell_text.split('\n')
Lines(text) ==
    CASE text = "G\nnote" -> <<"G", "note">>
      [] text = "W \nOffice, AB-CD-1" -> <<"W ", "Office, AB-CD-1">>
      [] OTHER -> <<text>>

\* re.search(r'([A-Z]+-[A-Z]+-\d+)', extra).group(1), <<>> when no match
SkuOf(extra) == IF extra = "Office, AB-CD-1" THEN <<"AB-CD-1">> ELSE <<>>

\* extra.replace(sku, '').strip().strip(',').strip()
CategoryOf(extra) == IF extra = "Office, AB-CD-1" THEN "Office" ELSE extra

\* item[key] = value
Put(item, key, value) ==
    [k \in DOMAIN item \cup {key} |-> IF k = key THEN value ELSE item[k]]

\* lines 344-349: the SKU and the category of the second line of the cell
PutExtra(item, extra) ==
    IF SkuOf(extra) = <<>> THEN item
    ELSE IF CategoryOf(extra) = "" THEN Put(item, "sku", SkuOf(extra)[1])
    ELSE Put(Put(item, "sku", SkuOf(extra)[1]), "category", CategoryOf(extra))

\* lines 336-355: one cell mapped by the header of its column
MapCell(item, header, cell_text) ==
    IF header \in {"item", "description", "product"}
    THEN IF Len(Lines(cell_text)) > 1
         THEN PutExtra(Put(item, "description", TextStrip(Lines(cell_text)[1])),
                       Lines(cell_text)[2])
         ELSE Put(item, "description", TextStrip(Lines(cell_text)[1]))
    ELSE IF header \in {"quantity", "qty"} THEN Put(item, "quantity", cell_text)
    ELSE IF header \in {"rate", "price", "unit price"} THEN Put(item, "rate", cell_text)
    ELSE IF header \in {"amount", "total", "subtotal"} THEN Put(item, "amount", cell_text)
    ELSE item

\* the loop over the cells of a row, from cell i on
RECURSIVE MapCells(_, _, _, _)
MapCells(item, headers, cells, i) ==
    IF i > Len(cells) THEN item
    ELSE MapCells(MapCell(item, headers[i], TextStrip(cells[i])), headers, cells, i + 1)

\* line 328, mutated: a row shorter than the header is mapped too
CountAtMost(cells, headers) == Len(cells) <= Len(headers)

\* line 328: len(cells) != len(headers) skips the row
CountMatches(cells, headers) == Len(cells) = Len(headers)

\* lines 357-358: the item is appended when it has a description
KeepItem(item) ==
    IF "description" \in DOMAIN item /\ item["description"] # "" THEN <<item>> ELSE <<>>

\* lines 326-358: the items of the rows from row r on
RECURSIVE ItemsFrom(_, _, _)
ItemsFrom(headers, rows, r) ==
    IF r > Len(rows) THEN <<>>
    ELSE (IF CountMatches(rows[r], headers)
          THEN KeepItem(MapCells([k \in {} |-> ""], headers, rows[r], 1))
          ELSE <<>>)
         \o ItemsFrom(headers, rows, r + 1)

\* _parse_line_items once the markup is parsed
ParseLineItems(rows) ==
    IF Len(rows) < 2 THEN <<>>
    ELSE ItemsFrom([i \in DOMAIN rows[1] |-> Lower(TextStrip(rows[1][i]))], rows, 2)

\* _parse_line_items: the exception of BeautifulSoup leaves the method
LineItemsOf(table_html) ==
    IF table_html.rejected THEN [raised |-> TRUE, items |-> <<>>]
    ELSE [raised |-> FALSE, items |-> ParseLineItems(table_html.rows)]

(***************************************************************************)
(* DocumentClassifier and LanguageDetector                                 *)
(* core/document_classifier.py and core/language_support.py are not part   *)
(* of the files at hand; the two are modelled from their description:      *)
(* the classifier sums the weights of the lexicon entries of a type that   *)
(* occur in the text, normalises by the sum of all weights of the type,    *)
(* takes the first type in declaration order with the highest score and    *)
(* answers unknown with confidence 0 below the floor; the detector takes   *)
(* the script of the classifiable characters and answers unknown with      *)
(* confidence 0 when there are none.  Confidences are in percent.          *)
(***************************************************************************)
RejectedMarkup == "<![x y]>"
ProcessTok == {"Total", "$100.00", " ", RejectedMarkup, ItemTable}

MaxProcessLen == 2

Lexicon ==
    <<[type |-> "invoice",
       entries |-> {[word |-> "total", weight |-> 2], [word |-> "invoice", weight |-> 3]}],
      [type |-> "receipt",
       entries |-> {[word |-> "total", weight |-> 1], [word |-> "receipt", weight |-> 3]}]>>

ConfidenceFloor == 30

RECURSIVE SumWeights(_)
SumWeights(entries) ==
    IF entries = {} THEN 0
    ELSE LET e == CHOOSE x \in entries : TRUE
         IN  e.weight + SumWeights(entries \ {e})

Score(text, entries) ==
    (100 * SumWeights({e \in entries : e.word \in Range(LowerText(text))}))
        \div SumWeights(entries)

Classify(text) ==
    LET best == CHOOSE t \in DOMAIN Lexicon :
                    \A u \in DOMAIN Lexicon :
                        \/ Score(text, Lexicon[u].entries) < Score(text, Lexicon[t].entries)
                        \/ /\ Score(text, Lexicon[u].entries) = Score(text, Lexicon[t].entries)
                           /\ t <= u
    IN  IF Score(text, Lexicon[best].entries) < ConfidenceFloor
        THEN [document_type |-> "unknown", confidence |-> 0]
        ELSE [document_type |-> Lexicon[best].type,
              confidence |-> Score(text, Lexicon[best].entries)]

\* the tokens that hold Latin letters
LatinTokens == {"Total", RejectedMarkup, ItemTable}

Detect(text) ==
    IF Range(text) \cap LatinTokens = {}
    THEN [primary_language |-> "unknown", confidence |-> 0, script_detected |-> "none"]
    ELSE [primary_language |-> "en", confidence |-> 100, script_detected |-> "latin"]

(***************************************************************************)
(* StructuredOutputProcessor.process                                       *)
(* A text is a sequence over ProcessTok.  process holds no try statement:  *)
(* an exception of a substage leaves process.                              *)
(***************************************************************************)
\* the table fragments a call passes
ProcessTables == {RejectedTable, HtmlTable(<<>>), HtmlTable(<<<<"Item">>, <<"W">>>>)}

MaxTables == 2

\* extract_tables (output_parser.py:105) hands the page text to
\* BeautifulSoup outside any try: parse raises when a page holds markup the
\* parser rejects
ParseRaises(raw) ==
    \E page \in Range(DropBlank(SplitPages(raw))) : RejectedMarkup \in Range(page)

\* the tokens of the texts that _extract_fields is called on by itself
FieldTok == {"INV", "#", "5", "Notes", ":", " ", "*"}

MaxFieldLen == 4

\* the tokens that \w matches
FieldWordTok == {"INV", "5", "Notes", "Total"}

\* first position >= j that holds no word token
RECURSIVE WordRunEnd(_, _)
WordRunEnd(text, j) ==
    IF j <= Len(text) /\ text[j] \in FieldWordTok THEN WordRunEnd(text, j + 1) ELSE j

\* r"(?:Invoice|INV)\s*#?\s*:?\s*(\w+)" matched at token i: group 1
InvoiceWordAt(text, i) ==
    LET a == WsRunEnd(text, i + 1)
        b == WsRunEnd(text, IF a <= Len(text) /\ text[a] = "#" THEN a + 1 ELSE a)
        c == WsRunEnd(text, IF b <= Len(text) /\ text[b] = ":" THEN b + 1 ELSE b)
    IN  IF text[i] = "INV" /\ WordRunEnd(text, c) > c
        THEN Some(SubSeq(text, c, WordRunEnd(text, c) - 1))
        ELSE None

\* r"#\s*(\d+)" matched at token i: group 1
HashDigitsAt(text, i) ==
    LET a == WsRunEnd(text, i + 1) IN
    IF text[i] = "#" /\ FiveRunEnd(text, a) > a
    THEN Some(SubSeq(text, a, FiveRunEnd(text, a) - 1))
    ELSE None

\* r"Notes\s*:?\s*([^\n]+)" matched at token i: group 1 runs to the end of
\* the line; when nothing is left after the label and the optional parts,
\* the group takes back the last character of them that is no newline
NotesAt(text, i) ==
    LET a == WsRunEnd(text, i + 1)
        c == WsRunEnd(text, IF a <= Len(text) /\ text[a] = ":" THEN a + 1 ELSE a)
        back == {p \in (i + 1)..Len(text) : text[p] # NL}
    IN  IF text[i] # "Notes" THEN None
        ELSE IF c <= Len(text) THEN Some(SubSeq(text, c, LineEnd(text, c) - 1))
        ELSE IF back = {} THEN None
        ELSE Some(<<text[CHOOSE p \in back : \A q \in back : q <= p]>>)

\* one field pattern matched at token i: group 1, None when there is no
\* match; "no_match" stands for a pattern without a match over the tokens
FieldPatternAt(pattern, text, i) ==
    IF pattern = "invoice_word" THEN InvoiceWordAt(text, i)
    ELSE IF pattern = "hash_digits" THEN HashDigitsAt(text, i)
    ELSE IF pattern = "notes_rest" THEN NotesAt(text, i)
    ELSE IF pattern = "total_of" /\ KeywordNumberAt(PatternKeywords(pattern), text, i) # <<>>
    THEN Some(KeywordNumberAt(PatternKeywords(pattern), text, i))
    ELSE None

\* re.search(pattern, text, re.IGNORECASE | re.MULTILINE): group 1 of the
\* leftmost match, None when there is none
FieldSearch(pattern, text) ==
    LET hits == {i \in DOMAIN text : FieldPatternAt(pattern, text, i) # None}
    IN  IF hits = {} THEN None
        ELSE FieldPatternAt(pattern, text, CHOOSE i \in hits : \A j \in hits : i <= j)

\* _extract_first_match, mutated: the last pattern that matches wins
RECURSIVE ExtractLastMatch(_, _)
ExtractLastMatch(text, patterns) ==
    IF patterns = <<>> THEN None
    ELSE IF FieldSearch(patterns[Len(patterns)], text) # None
    THEN FieldSearch(patterns[Len(patterns)], text)
    ELSE ExtractLastMatch(text, SubSeq(patterns, 1, Len(patterns) - 1))

\* StructuredOutputProcessor._extract_first_match
RECURSIVE ExtractFirstMatch(_, _)
ExtractFirstMatch(text, patterns) ==
    IF patterns = <<>> THEN None
    ELSE IF FieldSearch(Head(patterns), text) # None
    THEN FieldSearch(Head(patterns), text)
    ELSE ExtractFirstMatch(text, Tail(patterns))

\* common_patterns, and doc_patterns[doc_type] for a type that has an entry
CommonPatterns ==
    <<[field |-> "date", patterns |-> <<"no_match", "no_match">>],
      [field |-> "total", patterns |-> <<"total_of">>]>>

DocPatterns(doc_type) ==
    IF doc_type = "invoice"
    THEN <<[field |-> "invoice_number", patterns |-> <<"invoice_word", "hash_digits">>],
           [field |-> "bill_to", patterns |-> <<"no_match", "no_match">>],
           [field |-> "ship_to", patterns |-> <<"no_match">>],
           [field |-> "subtotal", patterns |-> <<"no_match">>],
           [field |-> "discount", patterns |-> <<"no_match">>],
           [field |-> "tax", patterns |-> <<"no_match">>],
           [field |-> "shipping", patterns |-> <<"no_match">>],
           [field |-> "ship_mode", patterns |-> <<"no_match">>],
           [field |-> "order_id", patterns |-> <<"no_match">>],
           [field |-> "notes", patterns |-> <<"notes_rest">>],
           [field |-> "terms", patterns |-> <<"no_match">>]>>
    ELSE IF doc_type = "receipt"
    THEN <<[field |-> "receipt_number", patterns |-> <<"no_match">>],
           [field |-> "store", patterns |-> <<"no_match">>],
           [field |-> "cashier", patterns |-> <<"no_match">>],
           [field |-> "payment_method", patterns |-> <<"no_match">>]>>
    ELSE <<>>

\* str.strip('*')
RECURSIVE StripStars(_)
StripStars(v) ==
    IF v # <<>> /\ Head(v) = "*" THEN StripStars(Tail(v))
    ELSE IF v # <<>> /\ v[Len(v)] = "*" THEN StripStars(SubSeq(v, 1, Len(v) - 1))
    ELSE v

\* value.strip().strip('*').strip()
Cleaned(value) == Strip(StripStars(Strip(value)))

\* _structure_nested_fields
StructureNestedFields(fields) ==
    [k \in DOMAIN fields |->
        IF k = "bill_to" THEN [name |-> fields[k]]
        ELSE IF k = "ship_to" THEN [location |-> fields[k]]
        ELSE fields[k]]

\* _extract_fields: a common field is kept when its result is not empty, a
\* field of the document type when its cleaned result is not empty
ExtractFields(text, doc_type) ==
    LET common == {e \in Range(CommonPatterns) :
                      /\ ExtractFirstMatch(text, e.patterns) # None
                      /\ ExtractFirstMatch(text, e.patterns)[1] # <<>>}
        specific == {e \in Range(DocPatterns(doc_type)) :
                      /\ ExtractFirstMatch(text, e.patterns) # None
                      /\ Cleaned(ExtractFirstMatch(text, e.patterns)[1]) # <<>>}
    IN  StructureNestedFields(
            [k \in {e.field : e \in common \cup specific} |->
                LET e == CHOOSE x \in common \cup specific : x.field = k
                IN  IF e \in common THEN Strip(ExtractFirstMatch(text, e.patterns)[1])
                    ELSE Cleaned(ExtractFirstMatch(text, e.patterns)[1])])

\* lines 75-79: the line items of every table, until one raises
RECURSIVE AllLineItems(_)
AllLineItems(tables_html) ==
    IF tables_html = <<>> THEN [raised |-> FALSE, items |-> <<>>]
    ELSE IF LineItemsOf(Head(tables_html)).raised THEN [raised |-> TRUE, items |-> <<>>]
    ELSE [raised |-> AllLineItems(Tail(tables_html)).raised,
          items |-> LineItemsOf(Head(tables_html)).items
                        \o AllLineItems(Tail(tables_html)).items]

\* process: tables_html = None behaves as the empty list
Process(text, tables_html) ==
    IF AllLineItems(tables_html).raised \/ ParseRaises(text)
    THEN [raised |-> TRUE, output |-> <<>>]
    ELSE [raised |-> FALSE,
          output |-> [document_type |-> Classify(text).document_type,
                      confidence |-> Classify(text).confidence,
                      language |-> Detect(text).primary_language,
                      extracted_fields |-> ExtractFields(text, Classify(text).document_type),
                      line_items |-> AllLineItems(tables_html).items,
                      entities |-> SemanticExtract(text, <<>>).entities,
                      raw |-> [text |-> text,
                               tables_html |-> tables_html,
                               pages |-> Parse(text).pages]]]

\* BeautifulSoup(table_html, 'html.parser') of a fragment that
\* extract_tables returned: its rows
SoupOf(table_html) ==
    IF table_html = <<ItemTable>> THEN HtmlTable(<<<<"Item">>, <<"W">>>>)
    ELSE HtmlTable(<<>>)

\* ocr.py:423-429: the fragments of every page that parse returns, in order
FoundTables(text) ==
    LET pages == Parse(text).pages
    IN  Concat([i \in DOMAIN pages |->
                  [k \in DOMAIN pages[i].tables_html |-> SoupOf(pages[i].tables_html[k])]])

(***************************************************************************)
(* One instance of each component shared by two threads.  attrs holds the  *)
(* instance attributes that the constructors assign; calls holds, for each *)
(* thread, the call it is in.                                              *)
(***************************************************************************)
Threads == {1, 2}

\* SchemaExtractor.__init__ and SemanticExtractor.__init__
ConstructedAttrs ==
    [type_patterns |-> {"string", "number", "integer", "boolean", "date",
                        "email", "phone", "currency"},
     _entity_patterns |-> EntityPatterns,
     _context_patterns |-> ContextPatterns,
     _person_exclusions |-> PersonExclusions]

Idle == [pc |-> "idle", call |-> [op |-> "none", arg |-> <<>>], ret |-> <<>>]

\* _semantic_extractor = None, _processor = None (None is 0, an instance is
\* the number of its construction); no instance constructed
NoSingletons ==
    [globals |-> [_semantic_extractor |-> 0, _processor |-> 0],
     constructed |-> [SemanticExtractor |-> 0, StructuredOutputProcessor |-> 0]]

\* get_semantic_extractor and get_structured_processor
Accessors ==
    {[name |-> "get_semantic_extractor", global |-> "_semantic_extractor",
      class |-> "SemanticExtractor"],
     [name |-> "get_structured_processor", global |-> "_processor",
      class |-> "StructuredOutputProcessor"]}

\* _x = X(): one more instance of the class, stored in the global
Constructed(s, a) ==
    [globals |-> [s.globals EXCEPT ![a.global] = s.constructed[a.class] + 1],
     constructed |-> [s.constructed EXCEPT ![a.class] = @ + 1]]

\* StructuredOutputProcessor.__init__ calls get_semantic_extractor()
WithExtractor(s) ==
    IF s.globals._semantic_extractor = 0
    THEN Constructed(s, CHOOSE a \in Accessors : a.name = "get_semantic_extractor")
    ELSE s

\* the calls a thread makes on the shared instances
SharedCalls ==
    {[op |-> "parse", arg |-> [text |-> t]] : t \in SeqUpTo(ParseTok, 1)}
    \cup {[op |-> "schema_extract", arg |-> [text |-> t, schema |-> s, required |-> TRUE]] :
            t \in {<<>>, <<FieldName, ":", "1">>},
            s \in {BaseSchema("integer"), BaseSchema("string")}}
    \cup {[op |-> "semantic_extract", arg |-> [text |-> t, queries |-> q]] :
            t \in {ScenarioText, <<"Dr.", " ", "Adam">>},
            q \in {<<>>, <<"What is the total?">>}}
    \cup {[op |-> "process", arg |-> [text |-> t, tables_html |-> h]] :
            t \in {<<>>, <<"Total", "$100.00">>},
            h \in {<<>>, <<HtmlTable(<<<<"Item">>, <<"W">>>>)>>}}

\* what the call returns
CallResult(call) ==
    CASE call.op = "parse" -> Parse(call.arg.text)
      [] call.op = "schema_extract" ->
            Extract(call.arg.text, call.arg.schema, call.arg.required)
      [] call.op = "semantic_extract" ->
            SemanticExtract(call.arg.text, call.arg.queries)
      [] call.op = "process" -> Process(call.arg.text, call.arg.tables_html)

\* a handler that rebuilt its tables while running, as
\* _build_entity_patterns assigns self._person_exclusions
SelfRebuilt(self) == [self EXCEPT !._person_exclusions = {}]

\* the instance attributes when the handler returns: parse, extract and
\* process assign no attribute of self
SelfAfterCall(self) == self

(***************************************************************************)
(* JobQueue (services/queue.py)                                            *)
(* A job id is a position in JobIds; uuid4 gives each job a new one.  The  *)
(* sections under "with self._lock" exclude one another; dequeue takes no  *)
(* lock, so its steps fall between the steps of a locked section.          *)
(***************************************************************************)
MaxJobs == 2

JobIds == 1..MaxJobs
Workers == {1, 2}

\* JobPriority.HIGH and JobPriority.NORMAL
Priorities == {1, 2}

\* no job of that id in self._jobs
NoJob == [status |-> "absent", priority |-> 0, retries |-> 0, max_retries |-> 0]

\* Job(...): the defaults of the dataclass
NewJob(priority) ==
    [status |-> "pending", priority |-> priority, retries |-> 0, max_retries |-> 3]

\* the state of JobQueue() after __init__, before any thread is started
NoThread == [pc |-> "none", job |-> 0]

\* Job.__lt__: jobs a and b of self._jobs compared by priority value
JobLess(js, a, b) == js[a].priority < js[b].priority

\* heapq._siftdown, as PriorityQueue._put uses it: newitem, at position pos
\* (counted from 0), moves towards startpos past every parent it is less
\* than
RECURSIVE SiftDown(_, _, _, _, _)
SiftDown(heap, js, newitem, startpos, pos) ==
    IF pos > startpos /\ JobLess(js, newitem, heap[((pos - 1) \div 2) + 1])
    THEN SiftDown([heap EXCEPT ![pos + 1] = heap[((pos - 1) \div 2) + 1]],
                  js, newitem, startpos, (pos - 1) \div 2)
    ELSE [heap EXCEPT ![pos + 1] = newitem]

\* PriorityQueue.put(job) that loses the job
PutLost(heap, js, j) == heap

\* PriorityQueue.put(job): heappush(self.queue, job)
QueuePut(heap, js, j) == SiftDown(Append(heap, j), js, j, 0, Len(heap))

\* the loop of heapq._siftup: the smaller child moves up from position pos
\* down to a leaf; the heap and the position reached
RECURSIVE SiftUpLoop(_, _, _)
SiftUpLoop(heap, js, pos) ==
    IF 2 * pos + 1 < Len(heap)
    THEN LET childpos == 2 * pos + 1
             rightpos == childpos + 1
             c == IF rightpos < Len(heap)
                     /\ ~JobLess(js, heap[childpos + 1], heap[rightpos + 1])
                  THEN rightpos ELSE childpos
         IN  SiftUpLoop([heap EXCEPT ![pos + 1] = heap[c + 1]], js, c)
    ELSE <<heap, pos>>

\* PriorityQueue.get(): heappop(self.queue), the job returned and the heap
\* left
QueueGet(heap, js) ==
    LET lastelt == heap[Len(heap)]
        rest == SubSeq(heap, 1, Len(heap) - 1)
        down == SiftUpLoop([rest EXCEPT ![1] = lastelt], js, 0)
    IN  IF rest = <<>> THEN [job |-> lastelt, heap |-> <<>>]
        ELSE [job |-> rest[1],
              heap |-> SiftDown(down[1], js, lastelt, 0, down[2])]

\* how often job j is in the queue
Queued(j) == Cardinality({i \in DOMAIN queue : queue[i] = j})

\* JobQueue.enqueue: a new job, stored and queued under the lock
Enqueue ==
    /\ ~lock
    /\ \E j \in JobIds, priority \in Priorities :
        /\ jobs[j] = NoJob
        /\ \A k \in JobIds : k < j => jobs[k] # NoJob
        /\ jobs' = [jobs EXCEPT ![j] = NewJob(priority)]
        /\ queue' = QueuePut(queue, jobs', j)
    /\ UNCHANGED <<running, lock, workers, cancel, handled, cancelled>>
    /\ UNCHANGED <<op, arg, ret, attrs, calls, singletons, ratelimit, webhook, engine>>

\* the job of slot j is finished and out of the workers' reach: it is
\* COMPLETED or FAILED, not in the queue and in no thread's hands
Finished(j) ==
    /\ jobs[j].status \in {"completed", "failed"}
    /\ Queued(j) = 0
    /\ \A w \in Workers : workers[w].job # j
    /\ cancel.job # j

\* JobQueue.enqueue once every id of JobIds has been given out.  uuid4
\* makes a new id and self._jobs keeps the finished jobs, which no worker
\* touches again; the model follows MaxJobs jobs at a time and gives the
\* place of a finished job to the new one.
EnqueueNext ==
    /\ ~lock
    /\ \A k \in JobIds : jobs[k] # NoJob
    /\ \E j \in JobIds, priority \in Priorities :
        /\ Finished(j)
        /\ jobs' = [jobs EXCEPT ![j] = NewJob(priority)]
        /\ queue' = QueuePut(queue, jobs', j)
        /\ handled' = [handled EXCEPT ![j] = 0]
        /\ cancelled' = cancelled \ {j}
    /\ UNCHANGED <<running, lock, workers, cancel>>
    /\ UNCHANGED <<op, arg, ret, attrs, calls, singletons, ratelimit, webhook, engine>>

\* JobQueue.start_workers: self._running = True and the threads started
StartWorkers ==
    /\ ~running
    /\ \A w \in Workers : workers[w].pc = "none"
    /\ running' = TRUE
    /\ workers' = [w \in Workers |-> [pc |-> "loop", job |-> 0]]
    /\ UNCHANGED <<jobs, queue, lock, cancel, handled, cancelled>>
    /\ UNCHANGED <<op, arg, ret, attrs, calls, singletons, ratelimit, webhook, engine>>

\* worker, lines 218-219, and dequeue, line 131: while self._running, the
\* worker calls dequeue and self._queue.get(timeout=1) returns a job.  (When
\* the queue stays empty, dequeue returns None and the worker goes round
\* its loop, which changes nothing.)
WorkerGet(w) ==
    /\ workers[w].pc = "loop"
    /\ running
    /\ queue # <<>>
    /\ queue' = QueueGet(queue, jobs).heap
    /\ workers' = [workers EXCEPT ![w] = [pc |-> "dequeued", job |-> QueueGet(queue, jobs).job]]
    /\ UNCHANGED <<jobs, running, lock, cancel, handled, cancelled>>
    /\ UNCHANGED <<op, arg, ret, attrs, calls, singletons, ratelimit, webhook, engine>>

\* dequeue, lines 132-138: job.status = JobStatus.PROCESSING; return job
WorkerMark(w) ==
    /\ workers[w].pc = "dequeued"
    /\ jobs' = [jobs EXCEPT ![workers[w].job].status = "processing"]
    /\ workers' = [workers EXCEPT ![w].pc = "check"]
    /\ UNCHANGED <<queue, running, lock, cancel, handled, cancelled>>
    /\ UNCHANGED <<op, arg, ret, attrs, calls, singletons, ratelimit, webhook, engine>>

\* worker, lines 220-222: if job and job.status != JobStatus.CANCELLED,
\* the handler is invoked with the job
WorkerCheck(w) ==
    /\ workers[w].pc = "check"
    /\ IF jobs[workers[w].job].status # "cancelled"
       THEN /\ workers' = [workers EXCEPT ![w].pc = "handler"]
            /\ handled' = [handled EXCEPT ![workers[w].job] = @ + 1]
       ELSE /\ workers' = [workers EXCEPT ![w] = [pc |-> "loop", job |-> 0]]
            /\ UNCHANGED handled
    /\ UNCHANGED <<jobs, queue, running, lock, cancel, cancelled>>
    /\ UNCHANGED <<op, arg, ret, attrs, calls, singletons, ratelimit, webhook, engine>>

\* worker, lines 222-223: the handler returned; JobQueue.complete_job
WorkerComplete(w) ==
    /\ workers[w].pc = "handler"
    /\ ~lock
    /\ jobs' = [jobs EXCEPT ![workers[w].job].status = "completed"]
    /\ workers' = [workers EXCEPT ![w] = [pc |-> "loop", job |-> 0]]
    /\ UNCHANGED <<queue, running, lock, cancel, handled, cancelled>>
    /\ UNCHANGED <<op, arg, ret, attrs, calls, singletons, ratelimit, webhook, engine>>

\* fail_job comparing with <= where the code has <
RetriedOnceMore(job) ==
    IF job.retries + 1 <= job.max_retries
    THEN [job EXCEPT !.retries = @ + 1, !.status = "pending"]
    ELSE [job EXCEPT !.retries = @ + 1, !.status = "failed"]

\* JobQueue.fail_job, lines 158-170, on the job record
FailedJob(job) ==
    IF job.retries + 1 < job.max_retries
    THEN [job EXCEPT !.retries = @ + 1, !.status = "pending"]
    ELSE [job EXCEPT !.retries = @ + 1, !.status = "failed"]

\* worker, lines 224-225: the handler raised; JobQueue.fail_job, which puts
\* the job back in the queue when it is to be retried
WorkerFail(w) ==
    /\ workers[w].pc = "handler"
    /\ ~lock
    /\ jobs' = [jobs EXCEPT ![workers[w].job] = FailedJob(@)]
    /\ queue' = IF FailedJob(jobs[workers[w].job]).status = "pending"
                THEN QueuePut(queue, jobs', workers[w].job) ELSE queue
    /\ workers' = [workers EXCEPT ![w] = [pc |-> "loop", job |-> 0]]
    /\ UNCHANGED <<running, lock, cancel, handled, cancelled>>
    /\ UNCHANGED <<op, arg, ret, attrs, calls, singletons, ratelimit, webhook, engine>>

\* JobQueue.cancel_job, lines 199-202: the lock taken and the status read;
\* the call returns False at once when the job is unknown or not PENDING
CancelRead ==
    /\ cancel.pc = "idle"
    /\ ~lock
    /\ \E j \in JobIds :
        /\ jobs[j].status = "pending"
        /\ cancel' = [pc |-> "pending_seen", job |-> j]
        /\ lock' = TRUE
    /\ UNCHANGED <<jobs, queue, running, workers, handled, cancelled>>
    /\ UNCHANGED <<op, arg, ret, attrs, calls, singletons, ratelimit, webhook, engine>>

\* JobQueue.cancel_job, lines 203-204: job.status = JobStatus.CANCELLED;
\* return True, which releases the lock
CancelWrite ==
    /\ cancel.pc = "pending_seen"
    /\ jobs' = [jobs EXCEPT ![cancel.job].status = "cancelled"]
    /\ cancelled' = cancelled \cup {cancel.job}
    /\ cancel' = [pc |-> "idle", job |-> 0]
    /\ lock' = FALSE
    /\ UNCHANGED <<queue, running, workers, handled>>
    /\ UNCHANGED <<op, arg, ret, attrs, calls, singletons, ratelimit, webhook, engine>>

(***************************************************************************)
(* SlidingWindowLimiter and RateLimiter.check_rate_limit                   *)
(* (api/middleware/rate_limit.py).  Time is counted in ticks,              *)
(* TicksPerSecond to the second, so that int() has something to cut off.   *)
(***************************************************************************)
TicksPerSecond == 2
MaxLimit == 2
MaxWindow == 1
MaxTime == 5

Keys == {"key:a", "ip:b"}

\* no limiter constructed yet
NoLimiter == [constructed |-> FALSE, limit |-> 0, window |-> 0,
              requests |-> [k \in Keys |-> <<>>]]

\* no call made yet
NoVerdict == [key |-> "", raised |-> FALSE, allowed |-> FALSE,
              remaining |-> 0, retry_after |-> 0]

\* min(list) of a list that is not empty
RECURSIVE MinOf(_)
MinOf(ts) ==
    IF Len(ts) = 1 THEN ts[1]
    ELSE IF ts[1] <= MinOf(Tail(ts)) THEN ts[1] ELSE MinOf(Tail(ts))

\* lines 103-106: the timestamps of the window that ends at now
InWindow(ts, now, window) ==
    SelectSeq(ts, LAMBDA t : t > now - window * TicksPerSecond)

\* SlidingWindowLimiter.get_remaining, given the list of the key
GetRemaining(ts, now, lim) ==
    IF lim.limit - Len(InWindow(ts, now, lim.window)) > 0
    THEN lim.limit - Len(InWindow(ts, now, lim.window)) ELSE 0

\* line 111: int(oldest - window_start) + 1, in seconds
RetryAfter(kept, now, window) ==
    ((MinOf(kept) - (now - window * TicksPerSecond)) \div TicksPerSecond) + 1

\* RateLimiter.__init__ with the sliding-window strategy:
\* SlidingWindowLimiter(limit, window_seconds)
NewLimiter ==
    /\ ~limiter.constructed
    /\ \E limit \in 0..MaxLimit, window_seconds \in 1..MaxWindow :
        limiter' = [constructed |-> TRUE, limit |-> limit, window |-> window_seconds,
                    requests |-> [k \in Keys |-> <<>>]]
    /\ UNCHANGED <<clock, granted, verdict>>
    /\ UNCHANGED <<op, arg, ret, attrs, calls, singletons, jobqueue, webhook, engine>>

\* time passes
Tick ==
    /\ clock < MaxTime
    /\ clock' = clock + 1
    /\ UNCHANGED <<limiter, granted, verdict>>
    /\ UNCHANGED <<op, arg, ret, attrs, calls, singletons, jobqueue, webhook, engine>>

\* RateLimiter.check_rate_limit for a request of client key:
\* SlidingWindowLimiter.is_allowed(key), then get_remaining(key).  With
\* nothing in the window and limit 0, min() of line 110 raises ValueError
\* after line 103 has stored the pruned list.
CheckRateLimit(key) ==
    /\ limiter.constructed
    /\ LET kept == InWindow(limiter.requests[key], clock, limiter.window)
       IN  IF Len(kept) >= limiter.limit
           THEN /\ limiter' = [limiter EXCEPT !.requests[key] = kept]
                /\ verdict' =
                     IF kept = <<>>
                     THEN [key |-> key, raised |-> TRUE, allowed |-> FALSE,
                           remaining |-> 0, retry_after |-> 0]
                     ELSE [key |-> key, raised |-> FALSE, allowed |-> FALSE,
                           remaining |-> GetRemaining(kept, clock, limiter),
                           retry_after |-> RetryAfter(kept, clock, limiter.window)]
                /\ UNCHANGED granted
           ELSE /\ limiter' = [limiter EXCEPT !.requests[key] = Append(kept, clock)]
                /\ verdict' = [key |-> key, raised |-> FALSE, allowed |-> TRUE,
                               remaining |-> GetRemaining(Append(kept, clock), clock, limiter),
                               retry_after |-> 0]
                /\ granted' = [granted EXCEPT ![key] = Append(@, clock)]
    /\ UNCHANGED clock
    /\ UNCHANGED <<op, arg, ret, attrs, calls, singletons, jobqueue, webhook, engine>>

(***************************************************************************)
(* WebhookManager (api/routes/webhook.py).  deliver is a coroutine: it     *)
(* gives way at the POST and at the sleep between attempts, and what lies  *)
(* between two awaits is one step.  A webhook dict lives on after          *)
(* unregister for the coroutines that hold it.                             *)
(***************************************************************************)
max_attempts == 3
HistoryLimit == 100
MaxDeliveries == 2

WebhookIds == {"wh1", "wh2"}
Deliveries == 1..MaxDeliveries

\* what an attempt ends with: a response with a status code, or an exception
StatusCodes == {200, 300}
Raised == 0

\* an id that uuid4 has not produced yet
NoWebhook == [state |-> "unused", delivery_count |-> 0, failure_count |-> 0]

\* a coroutine that has not been called
NoDelivery == [pc |-> "none", found |-> FALSE, posts |-> 0,
               result |-> [delivery_id |-> 0, webhook_id |-> "", success |-> FALSE,
                           status_code |-> None, error |-> None, attempts |-> 0]]

\* WebhookManager.register: a new id, both counters 0
Register(id) ==
    /\ webhooks[id].state = "unused"
    /\ webhooks' = [webhooks EXCEPT ![id] =
                       [state |-> "registered", delivery_count |-> 0, failure_count |-> 0]]
    /\ UNCHANGED <<delivery_history, deliveries>>
    /\ UNCHANGED <<op, arg, ret, attrs, calls, singletons, jobqueue, ratelimit, engine>>

\* WebhookManager.unregister: del self._webhooks[webhook_id]
Unregister(id) ==
    /\ webhooks[id].state = "registered"
    /\ webhooks' = [webhooks EXCEPT ![id].state = "unregistered"]
    /\ UNCHANGED <<delivery_history, deliveries>>
    /\ UNCHANGED <<op, arg, ret, attrs, calls, singletons, jobqueue, ratelimit, engine>>

\* deliver, lines 88-123: look the webhook up; return at once when it is not
\* there, else build the result and enter the first attempt
DeliverStart(d, webhook_id) ==
    /\ deliveries[d].pc = "none"
    /\ IF webhooks[webhook_id].state # "registered"
       THEN deliveries' = [deliveries EXCEPT ![d].pc = "done",
                               ![d].result.webhook_id = webhook_id,
                               ![d].result.error = Some("Webhook not found")]
       ELSE deliveries' = [deliveries EXCEPT ![d].pc = "post", ![d].found = TRUE,
                               ![d].result = [delivery_id |-> d, webhook_id |-> webhook_id,
                                              success |-> FALSE, status_code |-> None,
                                              error |-> None, attempts |-> 1]]
    /\ UNCHANGED <<webhooks, delivery_history>>
    /\ UNCHANGED <<op, arg, ret, attrs, calls, singletons, jobqueue, ratelimit, engine>>

\* the result after the attempt ended with outcome (lines 133-142)
Attempted(result, outcome) ==
    IF outcome = Raised
    THEN [result EXCEPT !.error = Some("exception")]
    ELSE IF 200 <= outcome /\ outcome < 300
         THEN [result EXCEPT !.status_code = Some(outcome), !.success = TRUE]
         ELSE [result EXCEPT !.status_code = Some(outcome), !.success = FALSE,
                             !.error = Some("HTTP")]

\* lines 149-150 with the test left out: failure_count rises on every path
CountedFailed(wh, result) ==
    [wh EXCEPT !.failure_count = @ + 1]

\* lines 138-139 and 149-150: the counters of the webhook dict at the end
Counted(wh, result) ==
    IF result.success THEN [wh EXCEPT !.delivery_count = @ + 1]
    ELSE [wh EXCEPT !.failure_count = @ + 1]

\* deliver, lines 125-153: the POST of the attempt ends.  On success, or
\* after the last attempt, the counters and the history are written and the
\* coroutine returns; otherwise it sleeps.
DeliverPost(d) ==
    /\ deliveries[d].pc = "post"
    /\ \E outcome \in StatusCodes \cup {Raised} :
        LET result == Attempted(deliveries[d].result, outcome)
            id == result.webhook_id
        IN  IF result.success \/ result.attempts >= max_attempts
            THEN /\ webhooks' = [webhooks EXCEPT ![id] = Counted(@, result)]
                 /\ delivery_history' = Append(delivery_history, result)
                 /\ deliveries' = [deliveries EXCEPT ![d].pc = "done",
                                       ![d].posts = @ + 1, ![d].result = result]
            ELSE /\ deliveries' = [deliveries EXCEPT ![d].pc = "sleep",
                                       ![d].posts = @ + 1, ![d].result = result]
                 /\ UNCHANGED <<webhooks, delivery_history>>
    /\ UNCHANGED <<op, arg, ret, attrs, calls, singletons, jobqueue, ratelimit, engine>>

\* deliver, lines 146-147 and 123: the sleep ends, the next attempt begins
DeliverWake(d) ==
    /\ deliveries[d].pc = "sleep"
    /\ deliveries' = [deliveries EXCEPT ![d].pc = "post", ![d].result.attempts = @ + 1]
    /\ UNCHANGED <<webhooks, delivery_history>>
    /\ UNCHANGED <<op, arg, ret, attrs, calls, singletons, jobqueue, ratelimit, engine>>

\* history[-limit:]
LastOf(history, limit) ==
    IF limit = 0 \/ limit >= Len(history) THEN history
    ELSE SubSeq(history, Len(history) - limit + 1, Len(history))

\* WebhookManager.get_delivery_history(webhook_id, limit)
GetDeliveryHistory(webhook_id, limit) ==
    LastOf(IF webhook_id # ""
           THEN SelectSeq(delivery_history, LAMBDA r : r.webhook_id = webhook_id)
           ELSE delivery_history, limit)

(***************************************************************************)
(* WorkflowEngine (services/workflow.py).  A context is a function from    *)
(* its keys to strings, the empty string being the one falsy value.  A     *)
(* handler reads the context and returns an output or raises, as the       *)
(* built-in handlers do; execute is followed from handler call to handler  *)
(* call.  _execute_step and _evaluate_condition catch every exception, so  *)
(* nothing reaches the except clause of execute.                           *)
(***************************************************************************)
MaxSteps == 2

StepNames == {"a", "b"}
Handlers == {"validate_fields"}
OnFailure == {"fail", "skip", "retry"}
Outputs == {"", "out"}

\* f"{step.name}_output"
OutputKey(name) == IF name = "a" THEN "a_output" ELSE "b_output"

\* the contexts a caller passes
CallerContexts ==
    (UNION {[keys -> {"", "v"}] : keys \in {{}, {"flag"}}})
        \cup {[k \in {"a_output"} |-> "v"]}

\* WorkflowStep: the condition is None or the name of a context key
WorkflowSteps ==
    [name : StepNames, handler : Handlers \cup {"nope"},
     condition : {None, Some("flag"), Some("a_output")}, on_failure : OnFailure]

NoWorkflow == [created |-> FALSE, steps |-> <<>>]

NoExecution == [pc |-> "none", status |-> "pending", context |-> <<>>,
                step_results |-> <<>>, completed_at |-> None, index |-> 0]

\* the function f with f[key] = value
SetItem(f, key, value) ==
    [k \in DOMAIN f \cup {key} |-> IF k = key THEN value ELSE f[k]]

\* _evaluate_condition: eval of a name is the value bound to it; an
\* unbound name is a NameError, which gives True
EvaluateCondition(condition, context) ==
    IF condition \in DOMAIN context THEN context[condition] # "" ELSE TRUE

\* _execute_step: what the call of the step's handler can give
StepOutcomes(step) ==
    IF step.handler \notin Handlers
    THEN {[status |-> "failed", output |-> None, error |-> Some("Unknown handler")]}
    ELSE {[status |-> "completed", output |-> Some(o), error |-> None] : o \in Outputs}
         \cup {[status |-> "failed", output |-> None, error |-> Some("raised")]}

\* lines 193-194 without the test of the status
AlwaysCompleted(exec) ==
    [exec EXCEPT !.status = "completed", !.completed_at = Some("utcnow"),
                 !.pc = "returned"]

\* execute, lines 193-209: after the loop
Completed(exec) ==
    [exec EXCEPT !.status = IF @ = "running" THEN "completed" ELSE @,
                 !.completed_at = Some("utcnow"), !.pc = "returned"]

\* execute, lines 176-190: the step at exec.index has given result
AfterStep(exec, step, result) ==
    LET recorded == [exec EXCEPT !.step_results = SetItem(@, step.name, result),
                                 !.index = @ + 1]
    IN  IF result.status = "failed" /\ step.on_failure = "fail"
        THEN [recorded EXCEPT !.status = "failed", !.pc = "break"]
        ELSE IF result.status = "failed" /\ step.on_failure = "skip"
             THEN recorded
             ELSE IF result.output # None /\ result.output # Some("")
                  THEN [recorded EXCEPT !.context =
                            SetItem(@, OutputKey(step.name), result.output[1])]
                  ELSE recorded

\* the loop is left by break or at the end of the list
Left(exec, steps) ==
    IF exec.pc = "break" \/ exec.index > Len(steps) THEN Completed(exec) ELSE exec

\* WorkflowEngine.create_workflow
CreateWorkflow ==
    /\ ~workflow.created
    /\ \E n \in 0..MaxSteps : \E steps \in [1..n -> WorkflowSteps] :
        workflow' = [created |-> TRUE, steps |-> steps]
    /\ UNCHANGED <<execution, caller_context, invoked>>
    /\ UNCHANGED <<op, arg, ret, attrs, calls, singletons, jobqueue, ratelimit, webhook>>

\* execute, lines 145-164: ValueError for an id that is not in
\* self.workflows, else an execution RUNNING on a copy of the context
ExecuteStart ==
    /\ execution.pc = "none"
    /\ \E context \in CallerContexts :
        /\ caller_context' = Some(context)
        /\ execution' =
             IF ~workflow.created THEN [NoExecution EXCEPT !.pc = "raised"]
             ELSE Left([NoExecution EXCEPT !.pc = "running", !.status = "running",
                                           !.context = context, !.index = 1],
                       workflow.steps)
    /\ UNCHANGED <<workflow, invoked>>
    /\ UNCHANGED <<op, arg, ret, attrs, calls, singletons, jobqueue, ratelimit, webhook>>

\* execute, lines 166-190: one turn of the loop, and what follows the loop
\* when this was the last turn
ExecuteStep ==
    /\ execution.pc = "running"
    /\ LET step == workflow.steps[execution.index]
       IN  IF step.condition # None
              /\ ~EvaluateCondition(step.condition[1], execution.context)
           THEN /\ execution' =
                     Left([execution EXCEPT
                              !.step_results = SetItem(@, step.name,
                                  [status |-> "skipped", output |-> None, error |-> None]),
                              !.index = @ + 1], workflow.steps)
                /\ UNCHANGED invoked
           ELSE /\ \E result \in StepOutcomes(step) :
                     execution' = Left(AfterStep(execution, step, result), workflow.steps)
                /\ invoked' = IF step.handler \in Handlers
                              THEN Append(invoked, execution.index) ELSE invoked
    /\ UNCHANGED <<workflow, caller_context>>
    /\ UNCHANGED <<op, arg, ret, attrs, calls, singletons, jobqueue, ratelimit, webhook>>

(***************************************************************************)
(* The calls                                                               *)
(***************************************************************************)
Init ==
    /\ op = "init"
    /\ arg = <<>>
    /\ ret = <<>>
    /\ attrs = ConstructedAttrs
    /\ calls = [t \in Threads |-> Idle]
    /\ singletons = NoSingletons
    /\ jobs = [j \in JobIds |-> NoJob]
    /\ queue = <<>>
    /\ running = FALSE
    /\ lock = FALSE
    /\ workers = [w \in Workers |-> NoThread]
    /\ cancel = [pc |-> "idle", job |-> 0]
    /\ handled = [j \in JobIds |-> 0]
    /\ cancelled = {}
    /\ limiter = NoLimiter
    /\ clock = 0
    /\ granted = [k \in Keys |-> <<>>]
    /\ verdict = NoVerdict
    /\ webhooks = [id \in WebhookIds |-> NoWebhook]
    /\ delivery_history = <<>>
    /\ deliveries = [d \in Deliveries |-> NoDelivery]
    /\ workflow = NoWorkflow
    /\ execution = NoExecution
    /\ caller_context = None
    /\ invoked = <<>>

ParseCall ==
    /\ op = "init"
    /\ UNCHANGED shared
    /\ \E raw \in SeqUpTo(ParseTok, MaxParseLen) :
        /\ op' = "parse"
        /\ arg' = [text |-> raw]
        /\ ret' = Parse(raw)

SchemaExtractCall ==
    /\ op = "init"
    /\ UNCHANGED shared
    /\ \E text \in SeqUpTo(SchemaChars, MaxSchemaLen), schema \in Schemas,
          required \in BOOLEAN :
        /\ op' = "schema_extract"
        /\ arg' = [text |-> text, schema |-> schema, required |-> required]
        /\ ret' = Extract(text, schema, required)

SemanticExtractCall ==
    /\ op = "init"
    /\ UNCHANGED shared
    /\ \E text \in SeqUpTo(SemTok, MaxSemLen) \cup {ScenarioText, ManyEntitiesText},
          queries \in Queries :
        /\ op' = "semantic_extract"
        /\ arg' = [text |-> text, queries |-> queries]
        /\ ret' = SemanticExtract(text, queries)

ParseLineItemsCall ==
    /\ op = "init"
    /\ UNCHANGED shared
    /\ \E table_html \in {HtmlTable(t) : t \in LineItemTables} \cup {RejectedTable} :
        /\ op' = "parse_line_items"
        /\ arg' = [table |-> table_html]
        /\ ret' = LineItemsOf(table_html)

ClassifyCall ==
    /\ op = "init"
    /\ UNCHANGED shared
    /\ \E text \in SeqUpTo(ProcessTok, MaxProcessLen) :
        /\ op' = "classify"
        /\ arg' = [text |-> text]
        /\ ret' = Classify(text)

DetectCall ==
    /\ op = "init"
    /\ UNCHANGED shared
    /\ \E text \in SeqUpTo(ProcessTok, MaxProcessLen) :
        /\ op' = "detect"
        /\ arg' = [text |-> text]
        /\ ret' = Detect(text)

ProcessCall ==
    /\ op = "init"
    /\ UNCHANGED shared
    /\ \E text \in SeqUpTo(ProcessTok, MaxProcessLen),
          tables_html \in SeqUpTo(ProcessTables, MaxTables) :
        /\ op' = "process"
        /\ arg' = [text |-> text, tables_html |-> tables_html]
        /\ ret' = Process(text, tables_html)

ExtractTablesCall ==
    /\ op = "init"
    /\ UNCHANGED shared
    /\ \E content \in SeqUpTo(HtmlTok, MaxHtmlLen) :
        /\ op' = "extract_tables"
        /\ arg' = [content |-> content]
        /\ ret' = ExtractTables(content)

ExtractCheckboxesCall ==
    /\ op = "init"
    /\ UNCHANGED shared
    /\ \E content \in SeqUpTo(CheckTok, MaxCheckLen) :
        /\ op' = "extract_checkboxes"
        /\ arg' = [content |-> content]
        /\ ret' = ExtractCheckboxes(content)

ExtractEquationsCall ==
    /\ op = "init"
    /\ UNCHANGED shared
    /\ \E content \in SeqUpTo(EqTok, MaxEqLen) :
        /\ op' = "extract_equations"
        /\ arg' = [content |-> content]
        /\ ret' = ExtractEquations(content)

ExtractFieldsCall ==
    /\ op = "init"
    /\ UNCHANGED shared
    /\ \E text \in SeqUpTo(FieldTok, MaxFieldLen), doc_type \in {"invoice", "unknown"} :
        /\ op' = "extract_fields"
        /\ arg' = [text |-> text, doc_type |-> doc_type]
        /\ ret' = ExtractFields(text, doc_type)

\* thread t enters a handler of a shared instance
Enter(t) ==
    /\ op = "init"
    /\ calls[t].pc = "idle"
    /\ \E call \in SharedCalls :
        calls' = [calls EXCEPT ![t] = [pc |-> "running", call |-> call, ret |-> <<>>]]
    /\ UNCHANGED <<op, arg, ret, attrs, singletons, services>>

\* the handler of thread t runs to its return
Leave(t) ==
    /\ calls[t].pc = "running"
    /\ calls[t].call \in SharedCalls
    /\ calls' = [calls EXCEPT ![t] = [pc |-> "done", call |-> calls[t].call,
                                      ret |-> CallResult(calls[t].call)]]
    /\ attrs' = SelfAfterCall(attrs)
    /\ UNCHANGED <<op, arg, ret, singletons, services>>

\* if _x is None: thread t reads the global
CheckNone(t) ==
    /\ op = "init"
    /\ calls[t].pc = "idle"
    /\ \E a \in Accessors :
        calls' = [calls EXCEPT ![t] =
                    [pc |-> IF singletons.globals[a.global] = 0
                            THEN "constructing" ELSE "returning",
                     call |-> [op |-> a.name, arg |-> a], ret |-> <<>>]]
    /\ UNCHANGED <<op, arg, ret, attrs, singletons, services>>

\* _x = X(): thread t, which read None, constructs and stores an instance
Construct(t) ==
    /\ calls[t].pc = "constructing"
    /\ singletons' =
        Constructed(IF calls[t].call.arg.class = "StructuredOutputProcessor"
                    THEN WithExtractor(singletons) ELSE singletons,
                    calls[t].call.arg)
    /\ calls' = [calls EXCEPT ![t].pc = "returning"]
    /\ UNCHANGED <<op, arg, ret, attrs, services>>

\* return _x: thread t reads the global again
Return(t) ==
    /\ calls[t].pc = "returning"
    /\ calls' = [calls EXCEPT ![t].pc = "done",
                              ![t].ret = singletons.globals[calls[t].call.arg.global]]
    /\ UNCHANGED <<op, arg, ret, attrs, singletons, services>>

\* thread t goes on to its next call
Again(t) ==
    /\ calls[t].pc = "done"
    /\ calls[t].call.op \in {a.name : a \in Accessors}
    /\ calls' = [calls EXCEPT ![t] = Idle]
    /\ UNCHANGED <<op, arg, ret, attrs, singletons, services>>

\* the calls of OutputParser
NextParser ==
    \/ ParseCall

SpecParser == Init /\ [][NextParser]_vars

\* the calls of SchemaExtractor
NextSchema ==
    \/ SchemaExtractCall

SpecSchema == Init /\ [][NextSchema]_vars

\* the calls of SemanticExtractor
NextSemantic ==
    \/ SemanticExtractCall

SpecSemantic == Init /\ [][NextSemantic]_vars

\* the calls of the two extractors
NextExtractors ==
    \/ SchemaExtractCall
    \/ SemanticExtractCall

SpecExtractors == Init /\ [][NextExtractors]_vars

\* the calls of the line-item parser
NextLineItems ==
    \/ ParseLineItemsCall

SpecLineItems == Init /\ [][NextLineItems]_vars

\* the calls of the stages on their own
NextStages ==
    \/ ParseCall
    \/ ClassifyCall
    \/ DetectCall

SpecStages == Init /\ [][NextStages]_vars

\* the calls of the processor
NextProcess ==
    \/ ProcessCall

SpecProcess == Init /\ [][NextProcess]_vars

\* the calls of extract_tables
NextTables ==
    \/ ExtractTablesCall

SpecTables == Init /\ [][NextTables]_vars

\* the calls of OutputParser.extract_checkboxes
NextCheckboxes ==
    \/ ExtractCheckboxesCall

SpecCheckboxes == Init /\ [][NextCheckboxes]_vars

\* the calls of OutputParser.extract_equations
NextEquations ==
    \/ ExtractEquationsCall

SpecEquations == Init /\ [][NextEquations]_vars

\* the JobQueue with its worker threads and a thread that cancels jobs
NextQueue ==
    \/ Enqueue
    \/ StartWorkers
    \/ \E w \in Workers : WorkerGet(w)
    \/ \E w \in Workers : WorkerMark(w)
    \/ \E w \in Workers : WorkerCheck(w)
    \/ \E w \in Workers : WorkerComplete(w)
    \/ \E w \in Workers : WorkerFail(w)
    \/ CancelRead
    \/ CancelWrite

SpecQueue == Init /\ [][NextQueue]_vars

\* the JobQueue with jobs arriving without end.  The threads are scheduled
\* fairly: a worker that can take a step takes it, every handler call
\* returns or raises, and cancel_job, which holds the lock, goes on.
NextQueueLive ==
    \/ NextQueue
    \/ EnqueueNext

WorkerStep(w) ==
    \/ WorkerGet(w)
    \/ WorkerMark(w)
    \/ WorkerCheck(w)
    \/ WorkerComplete(w)
    \/ WorkerFail(w)

SpecQueueLive ==
    /\ Init
    /\ [][NextQueueLive]_vars
    /\ \A w \in Workers : WF_vars(WorkerStep(w))
    /\ WF_vars(CancelWrite)

\* the rate limiter called for two clients as time passes
NextLimiter ==
    \/ NewLimiter
    \/ Tick
    \/ \E key \in Keys : CheckRateLimit(key)

SpecLimiter == Init /\ [][NextLimiter]_vars

\* webhooks registered and unregistered while deliveries run
NextWebhook ==
    \/ \E id \in WebhookIds : Register(id) \/ Unregister(id)
    \/ \E d \in Deliveries :
        \/ \E id \in WebhookIds : DeliverStart(d, id)
        \/ DeliverPost(d)
        \/ DeliverWake(d)

SpecWebhook == Init /\ [][NextWebhook]_vars

\* a workflow created and executed once
NextWorkflow ==
    \/ CreateWorkflow
    \/ ExecuteStart
    \/ ExecuteStep

SpecWorkflow == Init /\ [][NextWorkflow]_vars

\* two threads calling the shared instances
NextShared ==
    \/ \E t \in Threads : Enter(t)
    \/ \E t \in Threads : Leave(t)

SpecShared == Init /\ [][NextShared]_vars

\* two threads calling the singleton accessors
NextSingletons ==
    \/ \E t \in Threads : CheckNone(t)
    \/ \E t \in Threads : Construct(t)
    \/ \E t \in Threads : Return(t)
    \/ \E t \in Threads : Again(t)

SpecSingletons == Init /\ [][NextSingletons]_vars

\* the calls of _extract_fields
NextFields ==
    \/ ExtractFieldsCall

SpecFields == Init /\ [][NextFields]_vars

\* the calls of every component
Next ==
    \/ ParseCall
    \/ SchemaExtractCall
    \/ SemanticExtractCall
    \/ ParseLineItemsCall
    \/ ClassifyCall
    \/ DetectCall
    \/ ProcessCall
    \/ ExtractTablesCall
    \/ ExtractFieldsCall
    \/ ExtractCheckboxesCall
    \/ ExtractEquationsCall
    \/ NextQueue
    \/ EnqueueNext
    \/ NextLimiter
    \/ NextWebhook
    \/ NextWorkflow
    \/ \E t \in Threads : Enter(t)
    \/ \E t \in Threads : Leave(t)
    \/ \E t \in Threads : CheckNone(t)
    \/ \E t \in Threads : Construct(t)
    \/ \E t \in Threads : Return(t)
    \/ \E t \in Threads : Again(t)

Spec == Init /\ [][Next]_vars

(***************************************************************************)
(* Properties of OutputParser.parse                                        *)
(***************************************************************************)
DelimPositions(text) == {i \in DOMAIN text : text[i] \in DelimTok}

DelimCount(text) == Cardinality(DelimPositions(text))

HasContent(text) == \E i \in DOMAIN text : text[i] \notin Whitespace \cup DelimTok

Blank(s) == \A i \in DOMAIN s : s[i] \in Whitespace

NumberedInOrder(pages) == \A i \in DOMAIN pages : pages[i].page_number = i

\* every delimiter stands between two newlines of its own, nothing but
\* whitespace precedes the first one and content follows each one
PageFormed(text) ==
    LET P == DelimPositions(text) IN
    /\ \A p \in P : p > 1 /\ p < Len(text) /\ text[p - 1] = NL /\ text[p + 1] = NL
    /\ \A i \in DOMAIN text : (\A p \in P : i < p) => text[i] \in Whitespace
    /\ \A p \in P : \E i \in DOMAIN text :
          /\ i > p
          /\ text[i] \notin Whitespace \cup DelimTok
          /\ \A q \in P : q > p => i < q

\* C1 as stated: a text with N delimiters "--- Page <number> ---" and
\* non-empty content parses to exactly N pages numbered 1..N in order.
C1_NDelimitersNPages ==
    (op = "parse" /\ HasContent(arg.text)) =>
        /\ Len(ret.pages) = DelimCount(arg.text)
        /\ NumberedInOrder(ret.pages)

\* C1 amended: when every one of the N delimiters stands on a line of its
\* own, only whitespace precedes the first and content follows each, parse
\* returns exactly N pages numbered 1..N in order; for any text it returns
\* at most N + 1 pages, numbered in order.
C1_PageFormedNPages ==
    op = "parse" =>
        /\ PageFormed(arg.text) =>
              Len(ret.pages) = DelimCount(arg.text)
        /\ Len(ret.pages) <= DelimCount(arg.text) + 1
        /\ NumberedInOrder(ret.pages)

C1_Witness ==
    /\ op = "parse"
    /\ PageFormed(arg.text)
    /\ DelimCount(arg.text) = 2
    /\ Len(ret.pages) = 2

\* the segments that hold something else than whitespace
Surviving(segs) == SelectSeq(segs, LAMBDA s : ~Blank(s))

\* the text with the numbers of its delimiters exchanged
SwapLabels(text) ==
    [i \in DOMAIN text |->
        IF text[i] = Delim1 THEN Delim2
        ELSE IF text[i] = Delim2 THEN Delim1 ELSE text[i]]

\* C2: parse drops the empty and whitespace-only segments and gives the
\* i-th surviving segment page_number i, so the page numbers are exactly
\* 1..len(pages), whatever numbers the delimiters carry and in whatever order.
C2_NumberedByPosition ==
    op = "parse" =>
        LET surv == Surviving(SplitPages(arg.text)) IN
        /\ Len(ret.pages) = Len(surv)
        /\ \A i \in DOMAIN ret.pages :
              /\ ret.pages[i].page_number = i
              /\ ret.pages[i].raw_text = Strip(surv[i])
        /\ {ret.pages[i].page_number : i \in DOMAIN ret.pages} = 1..Len(ret.pages)
        /\ LET swapped == Parse(SwapLabels(arg.text)).pages IN
              /\ Len(swapped) = Len(ret.pages)
              /\ \A i \in DOMAIN swapped :
                    swapped[i].page_number = ret.pages[i].page_number

C2_Witness ==
    /\ op = "parse"
    /\ Len(ret.pages) = 2
    /\ Len(SplitPages(arg.text)) > Len(ret.pages)
    /\ \E i, j \in DOMAIN arg.text : i < j /\ arg.text[i] = Delim2 /\ arg.text[j] = Delim1

(***************************************************************************)
(* Properties of SchemaExtractor.extract                                   *)
(***************************************************************************)
\* C5: every ExtractionResult that extract returns with valid = true has a
\* non-null value and an empty errors list, the required check included.
C5_ValidImpliesValueNoErrors ==
    op = "schema_extract" =>
        \A f \in DOMAIN ret :
            ret[f].valid => (ret[f].value # Null /\ ret[f].errors = <<>>)

C5_Witness ==
    /\ op = "schema_extract"
    /\ arg.required
    /\ arg.schema.minimum # None
    /\ ret[FieldName].valid
    /\ ret[FieldName].confidence = 85

\* C6 as stated: the "Required field not found" error is reported exactly
\* when the property is listed in required and no value was extracted for
\* it; the result then has valid = false and value = null.
C6_RequiredErrorIffNoValue ==
    op = "schema_extract" =>
        LET r == ret[FieldName]
            reported == \E i \in DOMAIN r.errors : r.errors[i] = RequiredError
        IN  /\ reported <=> (arg.required /\ r.value = Null)
            /\ reported => (~r.valid /\ r.value = Null)

\* the value the search loop accepted, before the constraint checks
Accepted(text, schema) ==
    SearchLoop(BuildSearchPatterns(schema.type, schema.pattern),
               1, text, schema, <<>>).value

ViolatesEnum(v, schema) == schema.enum # None /\ v \notin schema.enum[1]

ViolatesRange(v, schema) ==
    /\ v.t \in {"int", "bool"}
    /\ \/ schema.minimum # None /\ NumOf(v) < schema.minimum[1]
       \/ schema.maximum # None /\ NumOf(v) > schema.maximum[1]

ViolatesLength(v, schema) ==
    /\ v.t = "str"
    /\ \/ schema.minLength # None /\ Len(v.v) < schema.minLength[1]
       \/ schema.maxLength # None /\ Len(v.v) > schema.maxLength[1]

\* C7 as stated: when the accepted value violates the enum, the length or
\* the range constraint of the property, the violation is recorded in
\* errors, valid is false and the value is kept in the result.
C7_ViolationRecordedValueKept ==
    op = "schema_extract" =>
        LET v == Accepted(arg.text, arg.schema)
            r == ret[FieldName]
        IN  (/\ v # Null
             /\ \/ ViolatesEnum(v, arg.schema)
                \/ ViolatesRange(v, arg.schema)
                \/ ViolatesLength(v, arg.schema))
            => (r.value = v /\ ~r.valid /\ r.errors # <<>>)

(***************************************************************************)
(* Properties of the confidences                                           *)
(***************************************************************************)
InUnitInterval(percent) == 0 <= percent /\ percent <= 100

\* C8: every confidence the extractors produce lies in [0,1]: that of each
\* ExtractionResult of SchemaExtractor.extract, of each SemanticField of
\* SemanticExtractor.extract and of each entity of its entities list.
C8_ConfidenceInUnitInterval ==
    /\ op = "schema_extract" =>
        \A f \in DOMAIN ret : InUnitInterval(ret[f].confidence)
    /\ op = "semantic_extract" =>
        /\ \A n \in DOMAIN ret.fields : InUnitInterval(ret.fields[n].confidence)
        /\ \A j \in DOMAIN ret.entities : InUnitInterval(ret.entities[j].confidence)

\* a call that yields a context-derived field, a query-derived field and an
\* entity
C8_Witness ==
    /\ op = "semantic_extract"
    /\ \E n \in DOMAIN ret.fields : ret.fields[n].context = "payment_info"
    /\ \E n \in DOMAIN ret.fields : ret.fields[n].context = "query"
    /\ ret.entities # <<>>

(***************************************************************************)
(* Properties of the person entities                                       *)
(***************************************************************************)
PersonValues == {ret.entities[j].value : j \in {k \in DOMAIN ret.entities :
                                                   ret.entities[k].type = "person"}}

SectionLabels ==
    {<<"Bill", " ", "To">>, <<"Ship", " ", "To">>, <<"Ship", " ", "Mode">>,
     <<"Second", " ", "Class">>, <<"Balance", " ", "Due">>}

\* s occurs in text as a run of tokens
Occurs(s, text) ==
    \E i \in 0..(Len(text) - Len(s)) : SubSeq(text, i + 1, i + Len(s)) = s

\* C9: no person entity of SemanticExtractor.extract is an excluded section
\* label, whatever the text; and for the text with the lines
\* "Bill To: Adam Smith" and "Ship Mode: Second Class" the person entities
\* include "Adam Smith".
C9_NoSectionLabelAsPerson ==
    op = "semantic_extract" =>
        /\ \A v \in PersonValues :
            /\ v \notin SectionLabels
            /\ LowerText(v) \notin PersonExclusions
        /\ (/\ Occurs(<<"Bill", " ", "To", ":", " ", "Adam", " ", "Smith", NL>>, arg.text)
            /\ Occurs(<<"Ship", " ", "Mode", ":", " ", "Second", " ", "Class", NL>>, arg.text))
           => <<"Adam", " ", "Smith">> \in PersonValues

\* the text of the test: the name pattern matches four labels and the name,
\* and the name alone is reported
C9_Witness ==
    /\ op = "semantic_extract"
    /\ arg.text = ScenarioText
    /\ SectionLabels \subseteq Range(FindAll("person_name", arg.text, 1))
    /\ PersonValues = {<<"Adam", " ", "Smith">>}

(***************************************************************************)
(* Properties of _parse_line_items                                         *)
(***************************************************************************)
DescriptionHeaders == {"item", "description", "product"}

\* the description column: the last column whose header names one
DescColumn(rows) ==
    LET cols == {c \in DOMAIN rows[1] :
                    Lower(TextStrip(rows[1][c])) \in DescriptionHeaders}
    IN  IF cols = {} THEN 0 ELSE CHOOSE c \in cols : \A e \in cols : e <= c

\* the data rows, by position, that have as many cells as the header and
\* non-empty text in the description column
MatchingRows(rows) ==
    SelectSeq([i \in 1..(Len(rows) - 1) |-> i + 1],
              LAMBDA r : /\ Len(rows[r]) = Len(rows[1])
                         /\ DescColumn(rows) # 0
                         /\ TextStrip(rows[r][DescColumn(rows)]) # "")

\* the table without the data rows whose cell count differs from the header's
WithoutOtherCounts(rows) ==
    <<rows[1]>> \o SelectSeq(Tail(rows), LAMBDA row : Len(row) = Len(rows[1]))

\* C10: _parse_line_items returns, in row order, exactly one item per data
\* row whose cell count equals the header's and whose description column
\* holds non-empty text; a row with another cell count contributes nothing
\* and leaves the items of the other rows as they are; a table with fewer
\* than two rows yields no items.
C10_OneItemPerMatchingRow ==
    (op = "parse_line_items" /\ ~arg.table.rejected) =>
        LET rows == arg.table.rows IN
        /\ ~ret.raised
        /\ Len(rows) < 2 => ret.items = <<>>
        /\ Len(rows) >= 2 =>
            /\ Len(ret.items) = Len(MatchingRows(rows))
            /\ \A j \in DOMAIN ret.items :
                ret.items[j]["description"] =
                    TextStrip(Lines(TextStrip(rows[MatchingRows(rows)[j]][DescColumn(rows)]))[1])
            /\ ParseLineItems(WithoutOtherCounts(rows)) = ret.items

\* a header and two data rows: the first with another cell count, the
\* second mapped to an item with its SKU
C10_Witness ==
    /\ op = "parse_line_items"
    /\ ~arg.table.rejected
    /\ Len(arg.table.rows) = 3
    /\ Len(arg.table.rows[2]) # Len(arg.table.rows[1])
    /\ Len(ret.items) = 1
    /\ "sku" \in DOMAIN ret.items[1]

(***************************************************************************)
(* Properties of process and of the stages                                 *)
(***************************************************************************)
OutputKeys ==
    {"document_type", "confidence", "language", "extracted_fields",
     "line_items", "entities", "raw"}

\* C3 as stated: process never raises, whatever the text and the tables: it
\* returns a record that holds document_type, confidence, language,
\* extracted_fields, line_items, entities and raw.
C3_ProcessNeverRaises ==
    op = "process" => (~ret.raised /\ DOMAIN ret.output = OutputKeys)

\* C4: for the empty string no stage raises: parse returns zero pages, the
\* classifier returns unknown with confidence 0 and the language detector
\* returns unknown with confidence 0.
C4_EmptyStringSentinels ==
    /\ (op = "parse" /\ arg.text = <<>>) =>
        (~ParseRaises(arg.text) /\ ret.pages = <<>>)
    /\ (op = "classify" /\ arg.text = <<>>) =>
        (ret.document_type = "unknown" /\ ret.confidence = 0)
    /\ (op = "detect" /\ arg.text = <<>>) =>
        (ret.primary_language = "unknown" /\ ret.confidence = 0)

\* parse has been called with the empty string
C4_Witness ==
    /\ op = "parse"
    /\ arg.text = <<>>
    /\ Len(ret.pages) = 0

(***************************************************************************)
(* Properties of the entities list                                         *)
(***************************************************************************)
\* the place of an entity type in the order of the entity patterns
TypeRank(etype) == CHOOSE t \in DOMAIN EntityPatterns : EntityPatterns[t].type = etype

\* C11: the entities list of SemanticExtractor.extract never holds more
\* than 20 elements; it is the first 20 matches in entity-type, then
\* pattern, then document order.
C11_AtMostTwentyEntities ==
    op = "semantic_extract" =>
        /\ Len(ret.entities) <= 20
        /\ Len(ret.entities) < 20 => Len(ret.entities) = Len(AllEntities(arg.text))
        /\ ret.entities = SubSeq(AllEntities(arg.text), 1, Len(ret.entities))
        /\ \A i, j \in DOMAIN ret.entities :
            i < j => TypeRank(ret.entities[i].type) <= TypeRank(ret.entities[j].type)

\* 22 matches, the name last in the text: the name and the first 19 amounts
\* are returned
C11_Witness ==
    /\ op = "semantic_extract"
    /\ Len(AllEntities(arg.text)) = 22
    /\ Len(ret.entities) = 20
    /\ ret.entities[1].value = <<"Dr.", " ", "Adam">>
    /\ ret.entities[20].type = "money"

(***************************************************************************)
(* Properties of extract_tables                                            *)
(***************************************************************************)
\* the tables found when every fragment is parsed on its own
RECURSIVE ReextractedCount(_)
ReextractedCount(fragments) ==
    IF fragments = <<>> THEN 0
    ELSE Len(ExtractTables(Head(fragments)).html_tables)
         + ReextractedCount(Tail(fragments))

\* C12 as stated: parsing the fragments that extract_tables returned as
\* standalone HTML and extracting again finds as many tables as the first
\* extraction returned, nested tables included.
C12_RoundTripSameCount ==
    op = "extract_tables" =>
        ReextractedCount(ret.html_tables) = Len(ret.html_tables)

(***************************************************************************)
(* Properties of the shared instances                                      *)
(***************************************************************************)
Done(t) == calls[t].pc = "done" /\ calls[t].call \in SharedCalls

Returned(t, a) == calls[t].pc = "done" /\ calls[t].call.op = a.name

\* C14 as stated: at most one instance of each class is ever constructed
\* and every call of an accessor returns the same instance, for any
\* interleaving of the callers.
C14_OneInstanceEver ==
    \A a \in Accessors :
        /\ singletons.constructed[a.class] <= 1
        /\ \A t, u \in Threads :
            (Returned(t, a) /\ Returned(u, a)) => calls[t].ret = calls[u].ret

(***************************************************************************)
(* Properties of process with and without the table list                   *)
(***************************************************************************)
\* C15 as stated: process(text) with tables_html omitted returns the same
\* line_items as process(text, T), T being the table fragments that parse
\* finds in text, page by page.
C15_OmittedTablesSameItems ==
    (op = "process" /\ ~ret.raised /\ arg.tables_html = FoundTables(arg.text))
        => ret.output.line_items = Process(arg.text, <<>>).output.line_items

(***************************************************************************)
(* Properties of the candidate patterns of a field                         *)
(***************************************************************************)
\* the weights along the list never increase
NonIncreasing(patterns) ==
    \A i, j \in DOMAIN patterns : i < j => patterns[j].weight <= patterns[i].weight

\* C16 as stated: the candidate list that _build_search_patterns returns
\* has weights that never increase along the list: the custom pattern (95)
\* first, the label-colon-value patterns (90), then the label-then-next-line
\* patterns (85), the type-shaped fallback (50) last.
C16_WeightsNeverIncrease ==
    op = "schema_extract" =>
        NonIncreasing(BuildSearchPatterns(arg.schema.type, arg.schema.pattern))

(***************************************************************************)
(* Properties of the search loop of _extract_field                         *)
(***************************************************************************)
\* pattern k matches the text and its extracted substring validates
Wins(patterns, k, text, schema) ==
    /\ patterns[k].kind # PatBad
    /\ ReSearch(patterns[k].kind, schema.type, text) # None
    /\ ValidateValue(ReSearch(patterns[k].kind, schema.type, text)[1],
                     schema.type, schema).ok

\* the first winning pattern, 0 when there is none
FirstWin(patterns, text, schema) ==
    LET wins == {k \in DOMAIN patterns : Wins(patterns, k, text, schema)}
    IN  IF wins = {} THEN 0 ELSE CHOOSE k \in wins : \A j \in wins : k <= j

\* the errors that the loop recorded
LoopErrors(errors) ==
    SelectSeq(errors, LAMBDA e : e \in {"Pattern error", "Value doesn't match type"})

\* C17: the value and the confidence of a field come from the first pattern
\* of the candidate list that matches the text and whose extracted substring
\* validates against the type; the confidence is that pattern's weight, and
\* no later pattern is evaluated: the loop's errors are those of the
\* patterns before it.  Without such a pattern there is no value and the
\* confidence is 0.  (The enum check that follows may still discard the
\* value.)
C17_FirstValidPatternWins ==
    op = "schema_extract" =>
        LET patterns == BuildSearchPatterns(arg.schema.type, arg.schema.pattern)
            w == FirstWin(patterns, arg.text, arg.schema)
            r == ret[FieldName]
            tried == IF w = 0 THEN DOMAIN patterns ELSE 1..(w - 1)
        IN  /\ Len(LoopErrors(r.errors))
                 = Cardinality({k \in tried :
                      \/ patterns[k].kind = PatBad
                      \/ ReSearch(patterns[k].kind, arg.schema.type, arg.text) # None})
            /\ IF w = 0 THEN r.confidence = 0 /\ r.value = Null
               ELSE /\ r.confidence = patterns[w].weight
                    /\ \/ r.value = ValidateValue(
                                  ReSearch(patterns[w].kind, arg.schema.type, arg.text)[1],
                                  arg.schema.type, arg.schema).value
                       \/ r.value = Null /\ arg.schema.enum # None

\* a pattern before the winner left an error in the loop, a later pattern
\* won, and a pattern after the winner, of another weight, matches and
\* validates too
C17_Witness ==
    /\ op = "schema_extract"
    /\ LET patterns == BuildSearchPatterns(arg.schema.type, arg.schema.pattern)
           w == FirstWin(patterns, arg.text, arg.schema)
       IN  /\ w > 1
           /\ LoopErrors(ret[FieldName].errors) # <<>>
           /\ ret[FieldName].value # Null
           /\ \E k \in DOMAIN patterns :
                /\ k > w
                /\ Wins(patterns, k, arg.text, arg.schema)
                /\ patterns[k].weight # patterns[w].weight

(***************************************************************************)
(* Properties of the context groups                                        *)
(***************************************************************************)
\* a trigger keyword of the group occurs in the lower-cased text
TriggerOccurs(group, text) == group.triggers \cap Range(LowerText(text)) # {}

\* C18: a field whose context is a context group is present only if a
\* trigger keyword of that group occurs in the lower-cased text; every such
\* field has confidence 85 (0.85) and a reasoning string that names the
\* group.  Without a trigger the patterns of the group are not evaluated:
\* no field of the group is returned.
C18_ContextFieldsGated ==
    op = "semantic_extract" =>
        \A n \in DOMAIN ret.fields : \A g \in DOMAIN ContextPatterns :
            ret.fields[n].context = ContextPatterns[g].name =>
                /\ TriggerOccurs(ContextPatterns[g], arg.text)
                /\ ret.fields[n].confidence = 85
                /\ ret.fields[n].reasoning =
                     <<"Found in ", ContextPatterns[g].name, " context with pattern match">>

\* the e-mail pattern matched at "E-mail", which is no trigger, and the
\* field was returned because the trigger "email" occurs later in the text
C18_Witness ==
    /\ op = "semantic_extract"
    /\ arg.text = <<"E-mail", Address, "Email">>
    /\ "email" \in DOMAIN ret.fields
    /\ ret.fields["email"].context = "contact_info"
    /\ ret.fields["email"].value = <<"a@b.co">>

\* C19 as stated: the summary is the word-count fallback exactly when no
\* entity was found in the text; when an entity of any type was found the
\* summary is built from the entity-type counts.
C19_FallbackIffNoEntities ==
    op = "semantic_extract" =>
        (ret.summary.kind = "words" <=> AllEntities(arg.text) = <<>>)

(***************************************************************************)
(* Properties of the document-type field extraction                        *)
(***************************************************************************)
\* the result of the first pattern of the list, in list order, that matches
FirstResult(text, patterns) ==
    LET hits == {k \in DOMAIN patterns : FieldSearch(patterns[k], text) # None}
    IN  IF hits = {} THEN None
        ELSE FieldSearch(patterns[CHOOSE k \in hits : \A j \in hits : k <= j], text)

\* the value that _extract_fields keeps of a result
KeptValue(e, result) ==
    IF result = None THEN <<>>
    ELSE IF e \in Range(CommonPatterns) THEN Strip(result[1])
    ELSE Cleaned(result[1])

MarkerPositions(content, marker) ==
    SelectSeq([i \in DOMAIN content |-> i], LAMBDA i : content[i] = marker)

\* C21: extract_checkboxes returns one entry for each checkbox marker of the
\* text; every checked entry comes before every unchecked entry, and within
\* each of the two groups the entries follow the order of their markers in
\* the text: entry k of a group carries the label that follows the k-th
\* marker of that kind.
C21_CheckedFirstInDocumentOrder ==
    op = "extract_checkboxes" =>
        LET c == MarkerPositions(arg.content, CheckedMark)
            u == MarkerPositions(arg.content, UncheckedMark)
            LabelAfter(i) ==
                Strip(SubSeq(arg.content, WsRunEnd(arg.content, i + 1),
                             LabelEnd(arg.content, WsRunEnd(arg.content, i + 1)) - 1))
        IN  /\ Len(ret) = Len(c) + Len(u)
            /\ \A k \in DOMAIN c :
                   ret[k] = [checked |-> TRUE, label |-> LabelAfter(c[k])]
            /\ \A k \in DOMAIN u :
                   ret[Len(c) + k] = [checked |-> FALSE, label |-> LabelAfter(u[k])]

\* an unchecked box stands in the text before two checked boxes with
\* different labels, and is listed after both
C21_Witness ==
    /\ op = "extract_checkboxes"
    /\ arg.content = <<UncheckedMark, CheckedMark, "a", CheckedMark>>
    /\ ret = <<[checked |-> TRUE, label |-> <<"a">>],
               [checked |-> TRUE, label |-> <<>>],
               [checked |-> FALSE, label |-> <<>>]>>

\* the text between the marker at position i and the next marker or newline
SameLineLabel(content, i) ==
    Strip(SubSeq(content, i + 1, LabelEnd(content, i + 1) - 1))

\* C22 as stated: the label of every checkbox is the trimmed text between
\* its marker and the next checkbox marker or newline, whichever comes
\* first; a label holds no text of a later line, so a marker followed
\* directly by a newline has an empty label.
C22_LabelEndsAtNewline ==
    op = "extract_checkboxes" =>
        LET c == MarkerPositions(arg.content, CheckedMark)
            u == MarkerPositions(arg.content, UncheckedMark)
        IN  /\ \A k \in DOMAIN c : ret[k].label = SameLineLabel(arg.content, c[k])
            /\ \A k \in DOMAIN u :
                   ret[Len(c) + k].label = SameLineLabel(arg.content, u[k])

(***************************************************************************)
(* Properties of OutputParser.extract_equations                            *)
(***************************************************************************)
\* the span of an inline match lies within the span of a display match
InsideDisplay(content, m) ==
    \E k \in DOMAIN DollarSpans(content, 1, 2) :
        /\ DollarSpans(content, 1, 2)[k].from <= m.from
        /\ m.to <= DollarSpans(content, 1, 2)[k].to

\* the inline matches that lie in no display block
InlineOutsideDisplay(content) ==
    LET outside == SelectSeq(DollarSpans(content, 1, 1),
                             LAMBDA m : ~InsideDisplay(content, m))
    IN  [k \in DOMAIN outside |->
            SubSeq(content, outside[k].from + 1, outside[k].to - 1)]

\* C23 as stated: the display-math pattern is evaluated before the
\* inline-math pattern and the spans it consumed are excluded, so the
\* content of a display block $$...$$ is reported once and not a second
\* time as an inline-math match: the result is the display matches, then
\* the inline matches outside the display blocks, then the environments.
C23_DisplayBlocksReportedOnce ==
    op = "extract_equations" =>
        ret = StrippedNonBlank(DollarMatches(arg.content, 1, 2))
                \o StrippedNonBlank(InlineOutsideDisplay(arg.content))
                \o StrippedNonBlank(EnvMatches(arg.content, 1, BeginEquation, EndEquation))
                \o StrippedNonBlank(EnvMatches(arg.content, 1, BeginAlign, EndAlign))

(***************************************************************************)
(* Properties of OutputParser.extract_tables: the CSV slots                *)
(***************************************************************************)
\* C24: after extract_tables the CSV list is as long as the HTML list and
\* slot i belongs to table i: it holds the CSV of table i when table i
\* holds data, and the error text when its conversion fails.  The call
\* returns the two lists whatever fails; no slot depends on another table.
C24_OneCsvSlotPerTable ==
    op = "extract_tables" =>
        /\ DOMAIN ret = {"html_tables", "csv_tables"}
        /\ Len(ret.csv_tables) = Len(ret.html_tables)
        /\ \A i \in DOMAIN ret.html_tables :
               ret.csv_tables[i] =
                   IF ItemTable \in Range(ret.html_tables[i])
                   THEN "Item\nW\n" ELSE CsvError

\* the conversion of the first table failed and the second table, which
\* follows it, has its CSV in the second slot
C24_Witness ==
    /\ op = "extract_tables"
    /\ arg.content = <<TableOpen, TableClose, ItemTable>>
    /\ ret.html_tables = <<<<TableOpen, TableClose>>, <<ItemTable>>>>
    /\ ret.csv_tables = <<CsvError, "Item\nW\n">>

(***************************************************************************)
(* Properties of JobQueue                                                  *)
(***************************************************************************)
\* C25 as stated: once cancel_job(job_id) has returned True, no worker
\* invokes the handler for the job and the status of the job stays
\* CANCELLED: no step sets it to PROCESSING, COMPLETED or FAILED, whatever
\* the interleaving of cancel_job, dequeue and the workers.
C25_CancelledJobNeverRuns ==
    [][\A j \in cancelled :
          /\ jobs'[j].status = "cancelled"
          /\ handled'[j] = handled[j]]_vars

\* C26: for every job the workers process, retries never exceeds
\* max_retries and the handler is invoked at most max_retries times; the
\* job is in the queue at most once; it is FAILED only with retries equal
\* to max_retries; and every step that changes retries adds one to it and
\* either puts the job back in the queue as PENDING, when retries is still
\* below max_retries, or makes it FAILED without queueing it, when retries
\* has reached max_retries.
C26_RetriesBounded ==
    /\ [](\A j \in JobIds :
            /\ jobs[j].retries <= jobs[j].max_retries
            /\ handled[j] <= jobs[j].max_retries
            /\ Queued(j) <= 1
            /\ jobs[j].status = "failed" => jobs[j].retries = jobs[j].max_retries)
    /\ [][\A j \in JobIds :
            /\ jobs'[j].status = "failed" /\ jobs[j].status # "failed"
                   => jobs'[j].retries = jobs[j].retries + 1
            /\ jobs[j] # NoJob /\ jobs'[j].retries # jobs[j].retries =>
                   /\ jobs'[j].retries = jobs[j].retries + 1
                   /\ IF jobs'[j].retries < jobs[j].max_retries
                      THEN jobs'[j].status = "pending" /\ Queued(j)' = Queued(j) + 1
                      ELSE jobs'[j].status = "failed" /\ Queued(j)' = Queued(j)]_vars

\* the handler was invoked three times for a job and raised each time: the
\* job is FAILED with retries 3 and is not in the queue
C26_Witness ==
    \E j \in JobIds :
        /\ jobs[j].status = "failed"
        /\ jobs[j].retries = 3
        /\ handled[j] = 3
        /\ Queued(j) = 0

\* the job of slot j is waiting or being processed
Unfinished(j) == jobs[j].status \in {"pending", "processing"}

\* the job of slot j reached COMPLETED or FAILED, or cancel_job returned
\* True for it
Settled(j) == jobs[j].status \in {"completed", "failed"} \/ j \in cancelled

AllowedInWindow(k, i, w) ==
    {j \in 1..Len(granted[k]) :
        granted[k][j] > granted[k][i] - w /\ granted[k][j] <= granted[k][i]}

\* no window of the limiter holds more allowed calls than its limit
WindowRespected ==
    \A k \in Keys : \A i \in 1..Len(granted[k]) :
        Cardinality(AllowedInWindow(k, i, limiter.window * TicksPerSecond))
            <= limiter.limit

\* every call returns: allowed with retry_after 0, or denied with
\* retry_after of at least one second
VerdictReturned ==
    /\ ~verdict.raised
    /\ verdict.key # "" =>
         IF verdict.allowed THEN verdict.retry_after = 0
         ELSE verdict.retry_after >= 1

\* a call that is not allowed adds no timestamp, and no call touches the
\* list of another key
CallKeepsLists ==
    \A key \in Keys : CheckRateLimit(key) =>
        /\ ~verdict'.allowed =>
               Len(limiter'.requests[key]) <= Len(limiter.requests[key])
        /\ \A other \in Keys \ {key} :
               limiter'.requests[other] = limiter.requests[other]

\* C28: for every client key and every sequence of is_allowed calls at
\* non-decreasing times, at most `limit` calls are allowed within any window
\* seconds; a denied call records no timestamp and returns retry_after >= 1,
\* an allowed call returns retry_after 0, and calls for one key never change
\* what is allowed for another key.
C28_LimitPerWindow ==
    /\ [](WindowRespected /\ VerdictReturned)
    /\ [][CallKeepsLists]_vars

(***************************************************************************)
(* WebhookManager.deliver                                                  *)
(***************************************************************************)
\* the records that delivery d left in the history of webhook_id
RecordsOf(d, webhook_id) ==
    SelectSeq(GetDeliveryHistory(webhook_id, HistoryLimit),
              LAMBDA r : r.delivery_id = d)

\* the number of records of webhook id with the given success
Recorded(id, success) ==
    Len(SelectSeq(GetDeliveryHistory(id, HistoryLimit),
                  LAMBDA r : r.success = success))

\* a returned delivery to a registered webhook made one to three attempts
\* and left one record, which counts them and is a success or a failure
\* after all three attempts; any other delivery left no record
OneRecordPerDelivery ==
    \A d \in Deliveries :
        LET del == deliveries[d]
            records == RecordsOf(d, del.result.webhook_id)
        IN  IF del.pc = "done" /\ del.found
            THEN /\ 1 <= del.posts /\ del.posts <= max_attempts
                 /\ Len(records) = 1
                 /\ records[1].attempts = del.posts
                 /\ records[1].success \/ del.posts = max_attempts
            ELSE /\ \A id \in WebhookIds : RecordsOf(d, id) = <<>>
                 /\ del.pc = "done" => del.posts = 0

\* each record raised exactly one counter of its webhook by one
CountersMatchHistory ==
    \A id \in WebhookIds :
        /\ webhooks[id].delivery_count = Recorded(id, TRUE)
        /\ webhooks[id].failure_count = Recorded(id, FALSE)

\* no attempt is made after a 2xx response
StopsAtFirstSuccess ==
    \A d \in Deliveries :
        deliveries'[d].posts > deliveries[d].posts => ~deliveries[d].result.success

\* C29: deliver to a registered webhook makes between 1 and 3 POST attempts
\* and stops at the first 2xx response; it then increments delivery_count by
\* one if an attempt succeeded, or failure_count by one if all three failed,
\* never both, and appends exactly one record to the delivery history whose
\* attempts field is the number of attempts made.  For an unknown webhook id
\* it makes no attempt and changes neither counters nor history.
C29_DeliverCountsOnce ==
    /\ [](OneRecordPerDelivery /\ CountersMatchHistory)
    /\ [][StopsAtFirstSuccess]_vars

\* one delivery succeeded at its second attempt, the other failed three
\* times, both to the same webhook
C29_Witness ==
    /\ deliveries[1].pc = "done" /\ deliveries[1].result.success
    /\ deliveries[1].posts = 2
    /\ deliveries[2].pc = "done" /\ deliveries[2].found
    /\ ~deliveries[2].result.success
    /\ deliveries[2].result.webhook_id = deliveries[1].result.webhook_id

(***************************************************************************)
(* WorkflowEngine.execute                                                  *)
(***************************************************************************)
\* a returned execution is COMPLETED or FAILED with completed_at set
ReturnedIsSettled ==
    execution.pc = "returned" =>
        /\ execution.status \in {"completed", "failed"}
        /\ execution.completed_at # None

\* the handlers were called in list order, and neither a call nor a result
\* belongs to a step that the loop has not reached
NothingAhead ==
    /\ \A i, j \in 1..Len(invoked) : i < j => invoked[i] < invoked[j]
    /\ \A i \in 1..Len(invoked) : invoked[i] < execution.index
    /\ DOMAIN execution.step_results \subseteq
           {workflow.steps[i].name : i \in 1..(execution.index - 1)}

\* the step that a turn of the loop handles, and the result it records
StepNow == workflow.steps[execution.index]
ResultNow == execution'.step_results[StepNow.name]

\* a turn of the loop: it handles the next step of the list; a failure with
\* on_failure 'fail' ends the execution as FAILED, a failure with 'skip'
\* leaves the context as it is and goes on to the next step, and the
\* execution ends COMPLETED only after a turn that did not fail with 'fail'
TurnOfLoop ==
    execution.pc = "running" /\ execution' # execution =>
        /\ execution'.index = execution.index + 1
        /\ StepNow.name \in DOMAIN execution'.step_results
        /\ ResultNow.status = "failed" /\ StepNow.on_failure = "fail" =>
               execution'.pc = "returned" /\ execution'.status = "failed"
        /\ ResultNow.status = "failed" /\ StepNow.on_failure = "skip" =>
               /\ execution'.context = execution.context
               /\ execution.index < Len(workflow.steps) => execution'.pc = "running"
        /\ execution'.status = "completed" =>
               /\ ~(ResultNow.status = "failed" /\ StepNow.on_failure = "fail")
               /\ execution.index = Len(workflow.steps)

\* nothing happens to an execution that has returned, and nothing to the
\* caller's dict once it was passed
AfterReturn ==
    /\ execution.pc = "returned" => UNCHANGED <<execution, invoked>>
    /\ caller_context # None => UNCHANGED caller_context

\* C30: execute runs the steps of a workflow in list order and always
\* returns an execution whose status is COMPLETED or FAILED with
\* completed_at set: when a step fails with on_failure 'fail' the status is
\* FAILED and no later step is executed or recorded in step_results; when a
\* step fails with on_failure 'skip' the later steps still run and the failed
\* step adds no '<step>_output' entry to the context; the status is
\* COMPLETED only if no step failed with on_failure 'fail'.  The caller's
\* context mapping is not modified.
C30_ExecuteSettles ==
    /\ [](ReturnedIsSettled /\ NothingAhead)
    /\ [][TurnOfLoop /\ AfterReturn]_vars

\* the first step failed with on_failure 'skip', the second ran and wrote
\* its output over a key that the caller's dict holds with another value
C30_Witness ==
    /\ execution.pc = "returned" /\ execution.status = "completed"
    /\ Len(workflow.steps) = 2
    /\ workflow.steps[1].on_failure = "skip" /\ workflow.steps[1].name = "b"
    /\ workflow.steps[2].name = "a"
    /\ execution.step_results["b"].status = "failed"
    /\ invoked = <<1, 2>>
    /\ caller_context = Some([k \in {"a_output"} |-> "v"])
    /\ execution.context = [k \in {"a_output"} |-> "out"]

====
